---- MODULE Spec2Model ----
(***************************************************************************)
(* Route scoring and wind-impact engine of the cycling route planner.      *)
(*                                                                         *)
(*   geo-logic.js      calculateWindImpact                                 *)
(*   app.js            calculateRoute, calculateRouteWindScore,            *)
(*                     computeRouteWindImpact, analyzeRouteCharacteristics,*)
(*                     handleRouteSelection                                *)
(*   map-engine.js     fetchRouteAlternatives, getElevationProfile         *)
(*   weather-api.js    fetchWindAtLocation, fetchRouteForecast             *)
(*                                                                         *)
(*   map-engine.js     fetchRouteAlternatives (SpecFetch)                  *)
(*   app.js            updateWeatherForProgress (SpecRadar)                *)
(*                                                                         *)
(* The specifications that share the module:                               *)
(*   SpecWind   the pure classifier over every pair of whole-degree        *)
(*              bearings;                                                  *)
(*   SpecAgg    one call of computeRouteWindImpact with its per-sample     *)
(*              weather fetches;                                           *)
(*   Spec       calculateRoute requests, overlapping, with the directions, *)
(*              weather and elevation collaborators answering in any order.*)
(*   SpecFetch  one call of fetchRouteAlternatives with its parallel       *)
(*              directions requests and its 15 s abort timer;              *)
(*   SpecRank   two candidates that differ in ascent only, scored and      *)
(*              sorted;                                                    *)
(*   SpecStats  analyzeRouteCharacteristics over routes built from a set   *)
(*              of step names and references;                              *)
(*   SpecRadar  updateWeatherForProgress choosing the radar frame;         *)
(*   SpecTurf   the classifier over the bearings turf.bearing returns;     *)
(*   SpecForecast  fetchRouteForecast with its per-point fetches;          *)
(*   SpecSample the sampling plan of computeRouteWindImpact;               *)
(*   SpecNav    live navigation: wrong-way alert, reroute, voice cursor;   *)
(*   SpecLive   the live sessions a host creates and ends.                 *)
(*                                                                         *)
(* Coordinates are points of a small planar grid.  Numbers that are        *)
(* fractional in the program are kept exact as scaled integers.            *)
(***************************************************************************)
EXTENDS Integers, Sequences, FiniteSets, TLC

VARIABLES
    \* --- SpecWind ---
    segB,            \* segmentBearing argument
    windB,           \* windDirection argument
    impact,          \* value returned by calculateWindImpact, "none" before the call
    \* --- SpecAgg ---
    aggGeom,         \* geometry argument of computeRouteWindImpact
    aggPc,           \* position of the call: "start" | "awaitForecast" | "done"
    aggFetch,        \* per sample point: "none" | "pending" | "failed" | a wind bearing
    aggFetchCount,   \* number of fetchWindAtLocation calls issued
    aggResult,       \* returned {tail, head, cross} or NoResult
    \* --- Spec ---
    terrain,         \* map terrain: "off" (null or exaggeration 0) | "on"
    nextReq,         \* number of calculateRoute invocations started so far
    reqs,            \* request id -> the invocation's locals and position
    currentRouteData,\* the selected route (global of app.js) or NoRoute
    drawnRoute,      \* what drawStaticRoute last drew, or NoRoute
    planBtn,         \* [disabled, label] of #plan-btn
    \* --- SpecFetch ---
    fxPc,            \* position of fetchRouteAlternatives: "start" | "awaitAll" | "done"
    fxFetches,       \* per query: the state of its fetch(...).then(...).catch(...) chain
    fxTimer,         \* the setTimeout of line 190: "none" | "armed" | "fired" | "cleared"
    fxAlert,         \* the alert shown, "none" when there was none
    fxResult,        \* the value returned: [returned, routes]
    \* --- SpecRank ---
    rkArgs,          \* two candidates of one request and the preference toggles
    rkRanked,        \* the scored candidates after scoredRoutes.sort, <<>> before
    \* --- SpecStats ---
    stRoute,         \* route argument of analyzeRouteCharacteristics
    stStats,         \* what the call produced, NoStats before
    \* --- SpecRadar ---
    wxArgs,          \* progress, durationHours, the form's time and mode, the clock
    wxFrame,         \* the radar frame updateWeatherForProgress asks for, NoFrame before
    \* --- SpecForecast ---
    wfResponses,     \* per point: what the weather service answers to its request
    wfPromises,      \* per point: the promise fetchWindAtLocation returned
    wfPc,            \* position of fetchRouteForecast: "start" | "awaitAll" | "done"
    wfForecast,      \* how the promise of fetchRouteForecast settled, NoForecast before
    \* --- SpecSample ---
    smCoords,        \* coords.length of the geometry given to computeRouteWindImpact
    smPlan,          \* numSamples, sampleIndices and the fetches requested, NoPlan before
    \* --- SpecNav ---
    isNavigating,    \* global of app.js
    isRerouting,     \* global of app.js
    wrongWayState,   \* global of app.js: [active, startTime, isAlerting]
    lastSpokenStepIndex, \* global of app.js, -1 when nothing was spoken
    clock,           \* Date.now(), in ms since navigation was first started
    reroutes,        \* performAutomaticReroute calls: [started, inFlight]
    navTrace,        \* history: the run of wrong-way updates, the route spoken for
    \* --- SpecLive ---
    liveSessionId,   \* global of app.js, 0 for null
    liveSessions,    \* the documents of "live_sessions" this client created
    liveCalls        \* createLiveSession calls awaiting addDoc, by their caller

windVars == <<segB, windB, impact>>
aggVars == <<aggGeom, aggPc, aggFetch, aggFetchCount, aggResult>>
routeVars == <<terrain, nextReq, reqs, currentRouteData, drawnRoute, planBtn>>
fetchVars == <<fxPc, fxFetches, fxTimer, fxAlert, fxResult>>
rankVars == <<rkArgs, rkRanked>>
statVars == <<stRoute, stStats>>
radarVars == <<wxArgs, wxFrame>>
forecastVars == <<wfResponses, wfPromises, wfPc, wfForecast>>
sampleVars == <<smCoords, smPlan>>
navVars == <<isNavigating, isRerouting, wrongWayState, lastSpokenStepIndex, clock,
             reroutes, navTrace>>
liveVars == <<liveSessionId, liveSessions, liveCalls>>
lateVars == <<forecastVars, sampleVars, navVars, liveVars>>
coreVars == <<windVars, aggVars, routeVars, fetchVars, rankVars, statVars, radarVars>>
pureVars == <<fetchVars, rankVars, statVars, radarVars, lateVars>>
vars == <<segB, windB, impact, aggGeom, aggPc, aggFetch, aggFetchCount, aggResult,
          terrain, nextReq, reqs, currentRouteData, drawnRoute, planBtn,
          fxPc, fxFetches, fxTimer, fxAlert, fxResult, rkArgs, rkRanked,
          stRoute, stStats, wxArgs, wxFrame,
          wfResponses, wfPromises, wfPc, wfForecast, smCoords, smPlan,
          isNavigating, isRerouting, wrongWayState, lastSpokenStepIndex, clock,
          reroutes, navTrace, liveSessionId, liveSessions, liveCalls>>

-----------------------------------------------------------------------------
(* Bounds of the model *)

\* longest list of routes the directions collaborator returns for one request
MaxRoutes == 3
\* longest coordinate array handed to computeRouteWindImpact
MaxCoords == 4
\* number of calculateRoute invocations that may overlap
MaxRequests == 2

-----------------------------------------------------------------------------
(* Arithmetic of the program *)

Abs(x) == IF x < 0 THEN -x ELSE x

\* Math.round(num / den) for den > 0: halves round towards +Infinity
RoundDiv(num, den) == (2 * num + den) \div (2 * den)

\* Math.round((part / total) * 100)
RoundPct(part, total) == RoundDiv(100 * part, total)

RECURSIVE SumSeq(_)
SumSeq(s) == IF s = <<>> THEN 0 ELSE Head(s) + SumSeq(Tail(s))

RECURSIVE MinSeq(_)
\* Math.min(...s) of a non-empty list
MinSeq(s) == IF Len(s) = 1 THEN s[1]
             ELSE LET m == MinSeq(Tail(s)) IN IF Head(s) < m THEN Head(s) ELSE m

-----------------------------------------------------------------------------
(* geo-logic.js: calculateWindImpact *)

calculateWindImpact_strictSwapped(segmentBearing, windDirection) ==
    LET raw == Abs(segmentBearing - ((windDirection + 180) % 360))
        diff == IF raw > 180 THEN 360 - raw ELSE raw
    IN  IF diff <= 45 THEN "tailwind"
        ELSE IF diff >= 135 THEN "headwind"
        ELSE "crosswind"

calculateWindImpact(segmentBearing, windDirection) ==
    LET raw == Abs(segmentBearing - ((windDirection + 180) % 360))
        diff == IF raw > 180 THEN 360 - raw ELSE raw
    IN  IF diff < 45 THEN "tailwind"
        ELSE IF diff > 135 THEN "headwind"
        ELSE "crosswind"

-----------------------------------------------------------------------------
(* Coordinates: [lon, lat] pairs on a planar grid; every displacement between  *)
(* two grid points is zero, along an axis, or along a diagonal.                *)

GridPoints == {<<0, 0>>, <<0, 1>>, <<1, 0>>, <<1, 1>>}

Sign(x) == IF x > 0 THEN 1 ELSE IF x < 0 THEN -1 ELSE 0

\* turf.bearing(a, b): degrees in (-180, 180], 0 for identical points
turfBearing(a, b) ==
    LET dx == Sign(b[1] - a[1])
        dy == Sign(b[2] - a[2])
    IN  CASE dx = 0  /\ dy >= 0 -> 0
          [] dx = 1  /\ dy = 1  -> 45
          [] dx = 1  /\ dy = 0  -> 90
          [] dx = 1  /\ dy = -1 -> 135
          [] dx = 0  /\ dy = -1 -> 180
          [] dx = -1 /\ dy = -1 -> -135
          [] dx = -1 /\ dy = 0  -> -90
          [] dx = -1 /\ dy = 1  -> -45

\* calculateBearing(p1, p2): (atan2(y, x) * 180 / PI + 360) % 360, in [0, 360)
calculateBearing(p1, p2) == (turfBearing(p1, p2) + 360) % 360

\* haversineDistance(p1, p2) * 1000: metres, 0 exactly for identical points
haversineMetres(p1, p2) ==
    LET dx == Abs(p2[1] - p1[1])
        dy == Abs(p2[2] - p1[2])
    IN  IF dx + dy = 0 THEN 0 ELSE IF dx + dy = 1 THEN 100 ELSE 141

-----------------------------------------------------------------------------
(* app.js: calculateRouteWindScore *)

\* number of segments i with calculateWindImpact(turf.bearing(...), windBearing) = 'tailwind'
TailwindSegments(coords, windBearing) ==
    Cardinality({i \in 1..(Len(coords) - 1) :
        calculateWindImpact(turfBearing(coords[i], coords[i + 1]), windBearing) = "tailwind"})

\* Math.round((good / (coords.length - 1)) * 100) || 0
\* (0 / 0 is NaN and NaN || 0 is 0; good is 0 whenever there is no segment)
calculateRouteWindScore(geometry, windBearing) ==
    LET coords == geometry.coordinates
    IN  IF Len(coords) < 2
        THEN [percentage |-> 0]
        ELSE [percentage |-> RoundPct(TailwindSegments(coords, windBearing), Len(coords) - 1)]

-----------------------------------------------------------------------------
(* Text of step names and references: strings are tuples of characters *)

UpperLetters == <<"A","B","C","D","E","F","G","H","I","J","K","L","M",
                  "N","O","P","Q","R","S","T","U","V","W","X","Y","Z">>
LowerLetters == <<"a","b","c","d","e","f","g","h","i","j","k","l","m",
                  "n","o","p","q","r","s","t","u","v","w","x","y","z">>
Digits == {"0","1","2","3","4","5","6","7","8","9"}

IsDigit(c) == c \in Digits
\* \w of a JavaScript regular expression
IsWordChar(c) ==
    \/ c \in Digits
    \/ c = "_"
    \/ \E k \in 1..26 : c = UpperLetters[k] \/ c = LowerLetters[k]

\* String.prototype.toLowerCase, character by character
LowerChar(c) ==
    IF \E k \in 1..26 : c = UpperLetters[k]
    THEN LowerLetters[CHOOSE k \in 1..26 : c = UpperLetters[k]]
    ELSE c
toLowerCase(s) == [i \in 1..Len(s) |-> LowerChar(s[i])]

\* s.includes(sub)
Includes(s, sub) ==
    \E i \in 0..(Len(s) - Len(sub)) : \A k \in 1..Len(sub) : s[i + k] = sub[k]

RoadRefTest_noBoundary(letter, s) ==
    \E i \in 1..(Len(s) - 1) : s[i] = letter /\ IsDigit(s[i + 1])

\* /\b<letter>\d+\b/.test(s)
RoadRefTest(letter, s) ==
    \E i \in 1..Len(s) :
        /\ s[i] = letter
        /\ (i = 1 \/ ~IsWordChar(s[i - 1]))
        /\ \E j \in (i + 1)..Len(s) :
              /\ \A k \in (i + 1)..j : IsDigit(s[k])
              /\ (j = Len(s) \/ ~IsWordChar(s[j + 1]))

-----------------------------------------------------------------------------
(* Routes the directions collaborator can return.  A route is                  *)
(* {distance (m), duration (s), geometry, legs: [{steps: [{distance, name,      *)
(* ref}]}]}; hasLegs = FALSE is a route object without a legs field, hasSteps   *)
(* = FALSE a leg without a steps field; an empty name or ref is a missing or    *)
(* empty string.                                                                *)

P00 == <<0, 0>>
P01 == <<0, 1>>
P10 == <<1, 0>>
P11 == <<1, 1>>

LineString(cs) == [type |-> "LineString", coordinates |-> cs]
Step(d, name, ref) == [distance |-> d, name |-> name, ref |-> ref]
\* a leg with its steps array, and a leg object that has no steps field
Leg(steps) == [hasSteps |-> TRUE, steps |-> steps]
LegWithoutSteps == [hasSteps |-> FALSE, steps |-> <<>>]

HighStreet == <<"H","i","g","h"," ","S","t","r","e","e","t">>
CanalPath == <<"C","a","n","a","l"," ","P","a","t","h">>
NorthCircular == <<"N","o","r","t","h"," ","C","i","r","c","u","l","a","r">>
M1ServiceArea == <<"M","1"," ","S","e","r","v","i","c","e"," ","A","r","e","a">>
CycleTrack == <<"C","y","c","l","e"," ","T","r","a","c","k">>

RouteCatalogue == <<
    \* 1: ordinary streets, north then east
    [distance |-> 1000, duration |-> 600,
     geometry |-> LineString(<<P00, P01, P11>>), hasLegs |-> TRUE,
     legs |-> << Leg(<< Step(1000, HighStreet, <<>>) >>) >>],
    \* 2: exactly 5% A-road, half on a canal path
    [distance |-> 1000, duration |-> 660,
     geometry |-> LineString(<<P00, P11, P10>>), hasLegs |-> TRUE,
     legs |-> << Leg(<< Step(50, <<"A","1","4">>, <<>>),
                               Step(500, CanalPath, <<>>) >>),
                 Leg(<< Step(450, HighStreet, <<>>) >>) >>],
    \* 3: fastest; 6% A-road by reference, 5% motorway; a duplicate point
    [distance |-> 2000, duration |-> 540,
     geometry |-> LineString(<<P01, P00, P00, P10>>), hasLegs |-> TRUE,
     legs |-> << Leg(<< Step(120, NorthCircular, <<"A","4","0","6">>),
                               Step(100, M1ServiceArea, <<>>),
                               Step(1780, CycleTrack, <<>>) >>) >>],
    \* 4: distance 0, a single coordinate, no legs field
    [distance |-> 0, duration |-> 0,
     geometry |-> LineString(<<P00>>), hasLegs |-> FALSE,
     legs |-> << >>],
    \* 5: distance 0 with a 7 m A-road step, two identical coordinates
    [distance |-> 0, duration |-> 45,
     geometry |-> LineString(<<P11, P11>>), hasLegs |-> TRUE,
     legs |-> << Leg(<< >>),
                 Leg(<< Step(7, <<"A","1">>, <<>>) >>) >>]
>>

RouteIds == 1..Len(RouteCatalogue)

-----------------------------------------------------------------------------
(* app.js: analyzeRouteCharacteristics *)

\* route.legs.forEach(leg => leg.steps.forEach(...)): every step, in order
RECURSIVE AllSteps(_)
AllSteps(legs) == IF legs = <<>> THEN <<>> ELSE Head(legs).steps \o AllSteps(Tail(legs))

IsARoadStep(step) == RoadRefTest("A", step.ref) \/ RoadRefTest("A", step.name)
IsMotorwayStep(step) == RoadRefTest("M", step.ref) \/ RoadRefTest("M", step.name)
IsCycleStep(step) ==
    LET lowerName == toLowerCase(step.name)
        lowerRef == toLowerCase(step.ref)
    IN  \/ Includes(lowerName, <<"c","y","c","l","e">>)
        \/ Includes(lowerName, <<"p","a","t","h">>)
        \/ Includes(lowerName, <<"g","r","e","e","n","w","a","y">>)
        \/ Includes(lowerName, <<"t","o","w","p","a","t","h">>)
        \/ Includes(lowerRef, <<"n","c","n">>)
IsScenicStep(step) ==
    LET lowerName == toLowerCase(step.name)
    IN  \/ Includes(lowerName, <<"p","a","r","k">>)
        \/ Includes(lowerName, <<"f","o","r","e","s","t">>)
        \/ Includes(lowerName, <<"w","o","o","d">>)
        \/ Includes(lowerName, <<"c","o","m","m","o","n">>)
        \/ Includes(lowerName, <<"t","r","a","i","l">>)
        \/ Includes(lowerName, <<"r","i","v","e","r">>)
        \/ Includes(lowerName, <<"c","a","n","a","l">>)
        \/ Includes(lowerName, <<"l","a","k","e">>)

\* running total of step.distance over the steps whose index is in matched
DistWhere(steps, matched) ==
    SumSeq([i \in 1..Len(steps) |-> IF i \in matched THEN steps[i].distance ELSE 0])

totalDist_unguarded(route) == route.distance

\* let totalDist = route.distance || 1
totalDist(route) == IF route.distance = 0 THEN 1 ELSE route.distance

\* Math.round((d / totalDist) * 100); the quotient is NaN or Infinity, and
\* finite is FALSE, when totalDist is 0
StatPct(d, total) == IF total = 0 THEN 0 ELSE RoundPct(d, total)

\* leg.steps.forEach(...) raises a TypeError on a leg without a steps array
stepsThrow(route) ==
    route.hasLegs /\ \E i \in 1..Len(route.legs) : ~route.legs[i].hasSteps

\* threw: the call ended in that TypeError and returned nothing
analyzeRouteCharacteristics(route) ==
    LET total == totalDist(route)
        steps == IF route.hasLegs /\ ~stepsThrow(route) THEN AllSteps(route.legs) ELSE <<>>
        idx == 1..Len(steps)
        aRoadDist == DistWhere(steps, {i \in idx : IsARoadStep(steps[i])})
        motorwayDist == DistWhere(steps, {i \in idx : IsMotorwayStep(steps[i])})
        cycleDist == DistWhere(steps, {i \in idx : IsCycleStep(steps[i])})
        scenicDist == DistWhere(steps, {i \in idx : IsScenicStep(steps[i])})
    IN  [aRoadPct     |-> StatPct(aRoadDist, total),
         motorwayPct  |-> StatPct(motorwayDist, total),
         cycleLanePct |-> StatPct(cycleDist, total),
         scenicScore  |-> StatPct(scenicDist, total),
         finite       |-> total # 0,
         threw        |-> stepsThrow(route)]

\* analyzeRouteCharacteristics(r) of every catalogue route
catalogueStats == [id \in RouteIds |-> analyzeRouteCharacteristics(RouteCatalogue[id])]

-----------------------------------------------------------------------------
(* map-engine.js: getElevationProfile.  What map.queryTerrainElevation answers *)
(* is the environment's: an elevation in metres per point, or null (noData).    *)

TerrainMaps == {
    [elev |-> [p \in GridPoints |-> 0], noData |-> {}],
    [elev |-> (P00 :> 10 @@ P01 :> 60 @@ P10 :> 0 @@ P11 :> 510), noData |-> {P10}]
}

\* the for loop of lines 332-359: the elevation column of the profile
RECURSIVE ProfileFrom(_, _, _)
ProfileFrom(coords, tmap, lastElevation) ==
    IF coords = <<>> THEN <<>>
    ELSE LET p == Head(coords)
             isNull == p \in tmap.noData
             elevation == IF isNull THEN lastElevation ELSE tmap.elev[p]
         IN  <<elevation>> \o ProfileFrom(Tail(coords), tmap, elevation)

IsDegenerateGeometry(geometry) ==
    geometry.type # "LineString" \/ Len(geometry.coordinates) < 2

\* the profile's elevations once the terrain can be queried ([] for a
\* geometry that is not a LineString of 2 or more coordinates)
elevationProfile(tmap, geometry) ==
    IF IsDegenerateGeometry(geometry) THEN <<>>
    ELSE ProfileFrom(geometry.coordinates, tmap, 0)

\* calculateRoute lines 991-997: sum of the positive elevation steps
ascentOf(profile) ==
    IF Len(profile) = 0 THEN 0
    ELSE SumSeq([i \in 1..(Len(profile) - 1) |->
                    IF profile[i + 1] > profile[i] THEN profile[i + 1] - profile[i] ELSE 0])

-----------------------------------------------------------------------------
(* Values of the variables a specification does not use *)

NoGeometry == [type |-> "none", coordinates |-> <<>>]
NoResult == [tail |-> -1, head |-> -1, cross |-> -1]
NoRoute == [req |-> 0, routeId |-> 0, score |-> 0]

WindParked == segB = 0 /\ windB = 0 /\ impact = "parked"
AggParked ==
    /\ aggGeom = NoGeometry
    /\ aggPc = "parked"
    /\ aggFetch = <<>>
    /\ aggFetchCount = 0
    /\ aggResult = NoResult
RouteParked ==
    /\ terrain = "off"
    /\ nextReq = 0
    /\ reqs = <<>>
    /\ currentRouteData = NoRoute
    /\ drawnRoute = NoRoute
    /\ planBtn = [disabled |-> FALSE, label |-> "Plan Route"]

NoFetchResult == [returned |-> FALSE, isNull |-> FALSE, routes |-> <<>>]
NoStats == [called |-> FALSE]
NoFrame == [called |-> FALSE, chosen |-> FALSE]
NoArgs == [given |-> FALSE]

FetchParked ==
    /\ fxPc = "parked"
    /\ fxFetches = <<>>
    /\ fxTimer = "none"
    /\ fxAlert = "none"
    /\ fxResult = NoFetchResult
RankParked == rkArgs = NoArgs /\ rkRanked = <<>>
StatsParked == stRoute = NoArgs /\ stStats = NoStats
RadarParked == wxArgs = NoArgs /\ wxFrame = NoFrame
NoForecast == [settled |-> FALSE, rejected |-> FALSE, value |-> <<>>]
NoPlan == [called |-> FALSE]
NoTrace == [wrongSince |-> -1, alertAfter |-> -1, spokenFor |-> NoRoute]
ForecastParked ==
    /\ wfResponses = <<>>
    /\ wfPromises = <<>>
    /\ wfPc = "parked"
    /\ wfForecast = NoForecast
SampleParked == smCoords = 0 /\ smPlan = NoPlan
NavParked ==
    /\ isNavigating = FALSE
    /\ isRerouting = FALSE
    /\ wrongWayState = [active |-> FALSE, startTime |-> 0, isAlerting |-> FALSE]
    /\ lastSpokenStepIndex = -1
    /\ clock = 0
    /\ reroutes = [started |-> 0, inFlight |-> 0, lastOutcome |-> "none"]
    /\ navTrace = NoTrace
LiveParked == liveSessionId = 0 /\ liveSessions = <<>> /\ liveCalls = <<>>
LateParked == ForecastParked /\ SampleParked /\ NavParked /\ LiveParked
CoreParked == FetchParked /\ RankParked /\ StatsParked /\ RadarParked
PureParked == CoreParked /\ LateParked
EarlierParked == WindParked /\ AggParked /\ RouteParked

-----------------------------------------------------------------------------
(* SpecWind: calculateWindImpact on every pair of whole-degree bearings *)

\* bearings in [0, 360), whole degrees
Bearings == 0..359

InitWind ==
    /\ segB \in Bearings
    /\ windB \in Bearings
    /\ impact = "none"
    /\ AggParked
    /\ RouteParked
    /\ PureParked

Classify ==
    /\ impact = "none"
    /\ impact' = calculateWindImpact(segB, windB)
    /\ UNCHANGED <<segB, windB>>
    /\ UNCHANGED aggVars
    /\ UNCHANGED routeVars
    /\ UNCHANGED pureVars

NextWind == Classify

SpecWind == InitWind /\ [][NextWind]_vars

\* angular distance of two bearings on the circle, in 0..180
AngularDistance(a, b) ==
    LET m == (a - b) % 360 IN IF m > 180 THEN 360 - m ELSE m

\* C1: for S and W in [0, 360) the class returned is tailwind iff the angular
\* distance d of S to the wind-toward bearing (W + 180) mod 360 is below 45,
\* headwind iff d is above 135, crosswind otherwise (d = 45 and d = 135
\* included); S = W is headwind and S = (W + 180) mod 360 is tailwind.
C1_ClassifierMatchesReference ==
    impact # "none" =>
        LET d == AngularDistance(segB, (windB + 180) % 360)
        IN  /\ (impact = "tailwind") <=> (d < 45)
            /\ (impact = "headwind") <=> (d > 135)
            /\ (impact = "crosswind") <=> (d >= 45 /\ d <= 135)
            /\ (d = 45 \/ d = 135) => impact = "crosswind"
            /\ segB = windB => impact = "headwind"
            /\ segB = (windB + 180) % 360 => impact = "tailwind"

\* a call on the tailwind boundary: the angular distance is exactly 45
C1_Witness ==
    /\ impact = "crosswind"
    /\ AngularDistance(segB, (windB + 180) % 360) = 45
    /\ segB < windB

-----------------------------------------------------------------------------
(* map-engine.js: fetchRouteAlternatives, the part calculateRoute relies on:    *)
(* the routes of every answered query, deduplicated by signature.               *)

\* `${Math.round(r.distance / 50)}_${Math.round(r.duration / 30)}`
signature(routeId) ==
    <<RoundDiv(RouteCatalogue[routeId].distance, 50),
      RoundDiv(RouteCatalogue[routeId].duration, 30)>>

\* allRoutes.forEach: keep the first route of every signature
RECURSIVE dedupe(_, _)
dedupe(allRoutes, seenSignatures) ==
    IF allRoutes = <<>> THEN <<>>
    ELSE LET sig == signature(Head(allRoutes))
         IN  IF sig \in seenSignatures
             THEN dedupe(Tail(allRoutes), seenSignatures)
             ELSE <<Head(allRoutes)>> \o dedupe(Tail(allRoutes), seenSignatures \cup {sig})

\* what fetchRouteAlternatives returns for the routes allRoutes of its queries
\* ([] after the alert when there are none)
uniqueRoutes(allRoutes) == dedupe(allRoutes, {})

-----------------------------------------------------------------------------
(* app.js: calculateRoute, the scoring of one candidate (lines 999-1031).       *)
(* The score is kept in thirtieths of a point, so that cycleLanePct * 0.5,      *)
(* aRoadPct * 1.5, ascent / 10 and (seconds / 60) * 2 stay whole numbers.       *)

\* Math.min(...routes.map(rt => rt.duration))
fastestDuration(routes) == MinSeq([i \in 1..Len(routes) |-> RouteCatalogue[routes[i]].duration])

aRoadPenaltyApplies_atLeast(avoidARoads, aRoadPct) == avoidARoads /\ aRoadPct >= 5

\* avoidARoads && stats.aRoadPct > 5
aRoadPenaltyApplies(avoidARoads, aRoadPct) == avoidARoads /\ aRoadPct > 5

ascentPenalty30_wholePoints(ascent) == 30 * (ascent \div 10)

\* score -= (ascent / 10), in thirtieths of a point
ascentPenalty30(ascent) == 3 * ascent

compositeScore30(windScore, stats, ascent, duration, fastest, avoidARoads, preferScenic) ==
    LET s0 == 50 * 30
        s1 == s0 + 30 * (windScore.percentage - 50)
        s2 == s1 + 15 * stats.cycleLanePct
        s3 == IF preferScenic THEN s2 + 60 * stats.scenicScore ELSE s2
        s4 == s3 - 45 * stats.aRoadPct
        s5 == s4 - 150 * stats.motorwayPct
        s6 == s5 - ascentPenalty30(ascent)
        s7 == s6 - (duration - fastest)
        s8 == IF aRoadPenaltyApplies(avoidARoads, stats.aRoadPct) THEN s7 - 50 * 30 ELSE s7
    IN  s8

\* what fetchWindAtLocation resolves to: null (ok = FALSE) or an observation
NoWeather == [ok |-> FALSE, hasBearing |-> FALSE, bearing |-> 0]
Observation(b) == [ok |-> TRUE, hasBearing |-> TRUE, bearing |-> b]
\* an observation whose windDirDEG is null
CalmObservation == [ok |-> TRUE, hasBearing |-> FALSE, bearing |-> 0]

windBearingOf_south(weather) == IF ~weather.ok THEN 180 ELSE weather.bearing

\* weather ? weather.bearing : 0
windBearingOf(weather) == IF ~weather.ok THEN 0 ELSE weather.bearing

compareRoutes_ascending(a, b) == a.score - b.score

\* (a, b) => b.score - a.score
compareRoutes(a, b) == b.score - a.score

\* Array.prototype.sort with compareRoutes: stable, e goes behind every element
\* the comparator does not order after it
RECURSIVE insertSorted(_, _)
insertSorted(sorted, e) ==
    IF sorted = <<>> THEN <<e>>
    ELSE IF compareRoutes(Head(sorted), e) <= 0
         THEN <<Head(sorted)>> \o insertSorted(Tail(sorted), e)
         ELSE <<e>> \o sorted

RECURSIVE sortRoutes(_)
sortRoutes(list) ==
    IF list = <<>> THEN <<>>
    ELSE insertSorted(sortRoutes(SubSeq(list, 1, Len(list) - 1)), list[Len(list)])

-----------------------------------------------------------------------------
(* app.js: calculateRoute as a state machine.  One invocation is               *)
(*   idle -> awaitRoutes -> [awaitIdle ->] awaitWind -> awaitAll -> done        *)
(* and every arrow is the continuation that runs when the awaited promise       *)
(* settles.  Each candidate of the Promise.all of line 982 is                   *)
(*   awaitIdle (getElevationProfile waits for the map) | scored | rejected.     *)

IdleRequest ==
    [pc |-> "idle", outcome |-> "none", originalContent |-> "",
     routes |-> <<>>, previousTerrain |-> "off", terrainResetNeeded |-> FALSE,
     avoidARoads |-> FALSE, preferScenic |-> FALSE,
     weather |-> NoWeather, windBearing |-> 0,
     cands |-> <<>>, scoredRoutes |-> <<>>,
     selRoute |-> NoRoute, selOptions |-> <<>>]

\* the outcome of one terrain query pass of getElevationProfile: the terrain
\* answers with a map of elevations, or the map library raises an error
ElevAnswer(m) == [error |-> FALSE, tmap |-> m]
ElevError == [error |-> TRUE, tmap |-> [elev |-> [p \in GridPoints |-> 0], noData |-> {}]]
ElevationAnswers == {ElevAnswer(m) : m \in TerrainMaps} \cup {ElevError}

\* lines 982-1031 for one route once its elevation pass has answered
scoreCandidate(rq, index, windBearing, answer) ==
    LET route == RouteCatalogue[rq.routes[index]]
        windScore == calculateRouteWindScore(route.geometry, windBearing)
        stats == catalogueStats[rq.routes[index]]
    IN  IF stats.threw \/ (answer.error /\ ~IsDegenerateGeometry(route.geometry))
        THEN [pc |-> "rejected", routeId |-> rq.routes[index], originalIndex |-> index,
              windScore |-> windScore, stats |-> stats, ascent |-> 0, score |-> 0,
              finite |-> FALSE]
        ELSE LET ascent == ascentOf(elevationProfile(answer.tmap, route.geometry))
             IN  [pc |-> "scored", routeId |-> rq.routes[index], originalIndex |-> index,
                  windScore |-> windScore, stats |-> stats, ascent |-> ascent,
                  score |-> compositeScore30(windScore, stats, ascent, route.duration,
                                             fastestDuration(rq.routes),
                                             rq.avoidARoads, rq.preferScenic),
                  finite |-> stats.finite]

\* a candidate whose getElevationProfile switched the terrain on and waits for 'idle'
waitingCandidate(rq, index, windBearing) ==
    LET route == RouteCatalogue[rq.routes[index]]
    IN  [pc |-> "awaitIdle", routeId |-> rq.routes[index], originalIndex |-> index,
         windScore |-> calculateRouteWindScore(route.geometry, windBearing),
         stats |-> catalogueStats[rq.routes[index]], ascent |-> 0, score |-> 0,
         finite |-> FALSE]

\* the finally block: planBtn.disabled = false; planBtn.innerHTML = originalContent
finallyBtn(rq) == [disabled |-> FALSE, label |-> rq.originalContent]

\* lines 935-958: the entry, up to the await of fetchRouteAlternatives
StartRequest(limit) ==
    /\ nextReq < limit
    /\ \E enoughWaypoints \in BOOLEAN :
         LET r == nextReq + 1
             rq == [reqs[r] EXCEPT !.originalContent = planBtn.label]
         IN  /\ nextReq' = r
             /\ IF enoughWaypoints
                THEN /\ reqs' = [reqs EXCEPT ![r] = [rq EXCEPT !.pc = "awaitRoutes"]]
                     /\ planBtn' = [disabled |-> TRUE, label |-> "Planning..."]
                ELSE /\ reqs' = [reqs EXCEPT ![r] =
                                    [rq EXCEPT !.pc = "done", !.outcome = "tooFewWaypoints"]]
                     /\ planBtn' = finallyBtn(rq)
    /\ UNCHANGED <<terrain, currentRouteData, drawnRoute>>
    /\ UNCHANGED windVars
    /\ UNCHANGED aggVars
    /\ UNCHANGED pureVars

\* lines 958-978 when fetchRouteAlternatives has answered
RoutesResolve(r, responses, prefs) ==
    /\ reqs[r].pc = "awaitRoutes"
    /\ \E allRoutes \in responses, pref \in prefs :
         LET routes == uniqueRoutes(allRoutes)
             rq == [reqs[r] EXCEPT !.routes = routes, !.previousTerrain = terrain]
         IN  IF routes = <<>>
             THEN /\ reqs' = [reqs EXCEPT ![r] = [rq EXCEPT !.pc = "done", !.outcome = "noRoutes"]]
                  /\ planBtn' = finallyBtn(rq)
                  /\ UNCHANGED terrain
             ELSE IF terrain = "off"
             THEN /\ terrain' = "on"
                  /\ reqs' = [reqs EXCEPT ![r] =
                                 [rq EXCEPT !.pc = "awaitIdle", !.terrainResetNeeded = TRUE]]
                  /\ UNCHANGED planBtn
             ELSE /\ reqs' = [reqs EXCEPT ![r] =
                                 [rq EXCEPT !.pc = "awaitWind",
                                            !.avoidARoads = pref.avoidARoads,
                                            !.preferScenic = pref.preferScenic]]
                  /\ UNCHANGED <<terrain, planBtn>>
    /\ UNCHANGED <<nextReq, currentRouteData, drawnRoute>>
    /\ UNCHANGED windVars
    /\ UNCHANGED aggVars
    /\ UNCHANGED pureVars

\* lines 968-978: the map's 'idle' event after calculateRoute switched the terrain on
MapIdle(r, prefs) ==
    /\ reqs[r].pc = "awaitIdle"
    /\ \E pref \in prefs :
         reqs' = [reqs EXCEPT ![r] =
                     [@ EXCEPT !.pc = "awaitWind",
                               !.avoidARoads = pref.avoidARoads,
                               !.preferScenic = pref.preferScenic]]
    /\ UNCHANGED <<terrain, nextReq, currentRouteData, drawnRoute, planBtn>>
    /\ UNCHANGED windVars
    /\ UNCHANGED aggVars
    /\ UNCHANGED pureVars

\* the terrain button: toggleTerrain(map, enable), exaggeration 1.5 or 0
\* (pressed while a request is in flight: the terrain is read by nothing else)
ToggleTerrain ==
    /\ \E r \in DOMAIN reqs : reqs[r].pc \notin {"idle", "done"}
    /\ terrain' = IF terrain = "off" THEN "on" ELSE "off"
    /\ UNCHANGED <<nextReq, reqs, currentRouteData, drawnRoute, planBtn>>
    /\ UNCHANGED windVars
    /\ UNCHANGED aggVars
    /\ UNCHANGED pureVars

\* indices of the routes whose callback reaches getElevationProfile (line 987 did
\* not throw) with a geometry it does not return [] for
queryable(routes) ==
    {i \in 1..Len(routes) : /\ ~catalogueStats[routes[i]].threw
                             /\ ~IsDegenerateGeometry(RouteCatalogue[routes[i]].geometry)}

\* lines 978-990 when fetchWindAtLocation has answered: the synchronous part of
\* every candidate's callback.  With the terrain off, the first getElevationProfile
\* that queries switches it on and waits for 'idle'; the later ones find it on.
WindResolve(r, winds, answers) ==
    /\ reqs[r].pc = "awaitWind"
    /\ \E weather \in winds, ans \in [1..Len(reqs[r].routes) -> answers] :
         LET rq == reqs[r]
             windBearing == windBearingOf(weather)
             q == queryable(rq.routes)
             waiter == IF terrain = "off" /\ q # {}
                       THEN CHOOSE i \in q : \A j \in q : i <= j
                       ELSE 0
             cands == [i \in 1..Len(rq.routes) |->
                         IF i = waiter
                         THEN waitingCandidate(rq, i, windBearing)
                         ELSE scoreCandidate(rq, i, windBearing, ans[i])]
         IN  /\ reqs' = [reqs EXCEPT ![r] =
                            [rq EXCEPT !.pc = "awaitAll", !.weather = weather,
                                       !.windBearing = windBearing, !.cands = cands]]
             /\ terrain' = IF q # {} THEN "on" ELSE terrain
    /\ UNCHANGED <<nextReq, currentRouteData, drawnRoute, planBtn>>
    /\ UNCHANGED windVars
    /\ UNCHANGED aggVars
    /\ UNCHANGED pureVars

\* map-engine.js lines 322-370 and app.js 991-1031: 'idle' arrives for a waiting
\* getElevationProfile, which queries, restores the terrain it found off, and
\* the candidate's callback computes its score
CandidateIdle(r, answers) ==
    /\ \E i \in 1..Len(reqs[r].cands), answer \in answers :
         /\ reqs[r].cands[i].pc = "awaitIdle"
         /\ reqs' = [reqs EXCEPT ![r].cands[i] =
                        scoreCandidate(reqs[r], i, reqs[r].windBearing, answer)]
         /\ terrain' = IF answer.error THEN terrain ELSE "off"
    /\ UNCHANGED <<nextReq, currentRouteData, drawnRoute, planBtn>>
    /\ UNCHANGED windVars
    /\ UNCHANGED aggVars
    /\ UNCHANGED pureVars

promiseAllFulfilled_first(cands) ==
    /\ \E i \in 1..Len(cands) : cands[i].pc = "scored"
    /\ \A i \in 1..Len(cands) : cands[i].pc # "rejected"

\* await Promise.all(...) continues normally: every candidate's promise fulfilled
promiseAllFulfilled(cands) == \A i \in 1..Len(cands) : cands[i].pc = "scored"

\* await Promise.all(...) throws: some candidate's promise rejected; the
\* finally block runs and the error leaves calculateRoute
PromiseAllReject(r) ==
    /\ reqs[r].pc = "awaitAll"
    /\ \E i \in 1..Len(reqs[r].cands) : reqs[r].cands[i].pc = "rejected"
    /\ reqs' = [reqs EXCEPT ![r] = [@ EXCEPT !.pc = "done", !.outcome = "threw"]]
    /\ planBtn' = finallyBtn(reqs[r])
    /\ UNCHANGED <<terrain, nextReq, currentRouteData, drawnRoute>>
    /\ UNCHANGED windVars
    /\ UNCHANGED aggVars
    /\ UNCHANGED pureVars

\* handleRouteSelection lines 1177-1181: what it installs and draws
installed(r, route) == [req |-> r, routeId |-> route.routeId, score |-> route.score]

\* lines 1034-1052 and handleRouteSelection: restore the terrain, sort, select
RankAndSelect(r) ==
    /\ reqs[r].pc = "awaitAll"
    /\ promiseAllFulfilled(reqs[r].cands)
    /\ LET rq == reqs[r]
           IsScored(c) == c.pc = "scored"
           scoredRoutes == sortRoutes(SelectSeq(rq.cands, IsScored))
       IN  /\ terrain' = IF rq.terrainResetNeeded THEN rq.previousTerrain ELSE terrain
           /\ reqs' = [reqs EXCEPT ![r] =
                          [rq EXCEPT !.pc = "done", !.outcome = "selected",
                                     !.scoredRoutes = scoredRoutes,
                                     !.selRoute = installed(r, scoredRoutes[1]),
                                     !.selOptions = scoredRoutes]]
           /\ currentRouteData' = installed(r, scoredRoutes[1])
           /\ drawnRoute' = installed(r, scoredRoutes[1])
           /\ planBtn' = finallyBtn(rq)
    /\ UNCHANGED nextReq
    /\ UNCHANGED windVars
    /\ UNCHANGED aggVars
    /\ UNCHANGED pureVars

-----------------------------------------------------------------------------
(* SpecScore: one calculateRoute request over every list of catalogue routes,   *)
(* both preference toggles, failing and answering collaborators.                *)

RECURSIVE SeqsUpTo(_, _)
\* the sequences over S of length 0..n
SeqsUpTo(S, n) ==
    IF n = 0 THEN {<<>>}
    ELSE LET shorter == SeqsUpTo(S, n - 1)
         IN  shorter \cup {Append(q, x) : q \in {t \in shorter : Len(t) = n - 1}, x \in S}

AllResponses == SeqsUpTo(RouteIds, MaxRoutes)
AllPrefs == [avoidARoads : BOOLEAN, preferScenic : BOOLEAN]
AllWinds == {NoWeather, Observation(0), Observation(90), Observation(225)}

InitRoute(n) ==
    /\ terrain = "off"
    /\ nextReq = 0
    /\ reqs = [r \in 1..n |-> IdleRequest]
    /\ currentRouteData = NoRoute
    /\ drawnRoute = NoRoute
    /\ planBtn = [disabled |-> FALSE, label |-> "Plan Route"]
    /\ WindParked
    /\ AggParked
    /\ PureParked

InitScore == InitRoute(1)

NextScore ==
    \/ StartRequest(1)
    \/ RoutesResolve(1, AllResponses, AllPrefs)
    \/ MapIdle(1, AllPrefs)
    \/ WindResolve(1, AllWinds, ElevationAnswers)
    \/ CandidateIdle(1, ElevationAnswers)
    \/ PromiseAllReject(1)
    \/ RankAndSelect(1)
    \/ ToggleTerrain

SpecScore == InitScore /\ [][NextScore]_vars

-----------------------------------------------------------------------------
(* app.js: computeRouteWindImpact, with weather-api.js: fetchRouteForecast *)

MissingGeometry == [type |-> "missing", coordinates |-> <<>>]

invalidWindGeometry_empty(geometry) ==
    \/ geometry.type = "missing"
    \/ geometry.type # "LineString"
    \/ Len(geometry.coordinates) < 1

\* !geometry || geometry.type !== 'LineString' || geometry.coordinates.length < 2
invalidWindGeometry(geometry) ==
    \/ geometry.type = "missing"
    \/ geometry.type # "LineString"
    \/ Len(geometry.coordinates) < 2

Min2(a, b) == IF a < b THEN a ELSE b
Max2(a, b) == IF a > b THEN a ELSE b

numSamplesOf_noCeiling(n) == Max2(3, (n \div 50) + 2)

\* Math.min(maxSamples, Math.max(3, Math.floor(coords.length / 50) + 2))
numSamplesOf(n) == Min2(15, Max2(3, (n \div 50) + 2))

\* sampleIndices: Math.round(i / (numSamples - 1) * (n - 1)) for i = 0..numSamples-1,
\* indices counted from 0 as in the program
sampleIndicesOf(n) ==
    LET ns == numSamplesOf(n)
    IN  [k \in 1..ns |-> RoundDiv((k - 1) * (n - 1), ns - 1)]

\* fetchRouteForecast: results.filter(r => r !== null)
fetchRouteForecast(results) ==
    LET NotNull(w) == w.ok IN SelectSeq(results, NotNull)

\* while (weatherData.length < numSamples) weatherData.push(last ?? null)
RECURSIVE padWeather(_, _)
padWeather(weatherData, numSamples) ==
    IF Len(weatherData) >= numSamples THEN weatherData
    ELSE padWeather(Append(weatherData,
                           IF weatherData = <<>> THEN NoWeather
                           ELSE weatherData[Len(weatherData)]),
                    numSamples)

\* the forEach of lines 3548-3554: position (from 1) of the first sample index
\* nearest to midIdx = Math.floor(i + 0.5) = i
closestSampleIdx(i, sampleIndices) ==
    CHOOSE s \in 1..Len(sampleIndices) :
        /\ \A t \in 1..Len(sampleIndices) :
              Abs(i - sampleIndices[s]) <= Abs(i - sampleIndices[t])
        /\ \A t \in 1..(s - 1) :
              Abs(i - sampleIndices[t]) > Abs(i - sampleIndices[s])

\* lines 3538-3568 for segment i (from 0): its length in metres and its class
segmentOf(coords, i, weatherData, sampleIndices) ==
    LET start == coords[i + 1]
        end == coords[i + 2]
        wd == weatherData[closestSampleIdx(i, sampleIndices)]
    IN  [metres |-> haversineMetres(start, end),
         impact |-> IF wd.ok /\ wd.hasBearing
                    THEN calculateWindImpact(calculateBearing(start, end), wd.bearing)
                    ELSE "crosswind"]

\* the metres accumulated in one bucket; zero-length segments are skipped
bucketMetres(segs, classes) ==
    SumSeq([k \in 1..Len(segs) |->
               IF segs[k].metres # 0 /\ segs[k].impact \in classes THEN segs[k].metres ELSE 0])

windPct_floor(part, totalM) == (100 * part) \div totalM

\* Math.round((part / totalM) * 100)
windPct(part, totalM) == RoundPct(part, totalM)

\* lines 3529-3577 once fetchRouteForecast has resolved with the per-sample results
windImpactResult(coords, results) ==
    LET n == Len(coords)
        sampleIndices == sampleIndicesOf(n)
        weatherData == padWeather(fetchRouteForecast(results), numSamplesOf(n))
        segs == [k \in 1..(n - 1) |-> segmentOf(coords, k - 1, weatherData, sampleIndices)]
        tailM == bucketMetres(segs, {"tailwind"})
        headM == bucketMetres(segs, {"headwind"})
        crossM == bucketMetres(segs, {"crosswind"})
        totalM == IF tailM + headM + crossM = 0 THEN 1 ELSE tailM + headM + crossM
    IN  [tail |-> windPct(tailM, totalM),
         head |-> windPct(headM, totalM),
         cross |-> windPct(crossM, totalM)]

Pending == [status |-> "pending", wx |-> NoWeather]
Settled(w) == [status |-> "settled", wx |-> w]

\* lines 3507-3529: the guard, the sample points, one fetchWindAtLocation each
AggCall ==
    /\ aggPc = "start"
    /\ IF invalidWindGeometry(aggGeom)
       THEN /\ aggResult' = [tail |-> 0, head |-> 0, cross |-> 100]
            /\ aggPc' = "done"
            /\ UNCHANGED <<aggFetch, aggFetchCount>>
       ELSE LET ns == Len(sampleIndicesOf(Len(aggGeom.coordinates)))
            IN  /\ aggFetch' = [k \in 1..ns |-> Pending]
                /\ aggFetchCount' = aggFetchCount + ns
                /\ aggPc' = "awaitForecast"
                /\ UNCHANGED aggResult
    /\ UNCHANGED aggGeom
    /\ UNCHANGED windVars
    /\ UNCHANGED routeVars
    /\ UNCHANGED pureVars

\* one fetchWindAtLocation settles: an observation, or null after any failure
AggFetchSettle(answers) ==
    /\ aggPc = "awaitForecast"
    /\ \E k \in 1..Len(aggFetch), w \in answers :
          /\ aggFetch[k].status = "pending"
          /\ aggFetch' = [aggFetch EXCEPT ![k] = Settled(w)]
    /\ UNCHANGED <<aggGeom, aggPc, aggFetchCount, aggResult>>
    /\ UNCHANGED windVars
    /\ UNCHANGED routeVars
    /\ UNCHANGED pureVars

\* the Promise.all of fetchRouteForecast resolves; lines 3531-3577 run
AggForecastDone ==
    /\ aggPc = "awaitForecast"
    /\ \A k \in 1..Len(aggFetch) : aggFetch[k].status = "settled"
    /\ aggResult' = windImpactResult(aggGeom.coordinates,
                                     [k \in 1..Len(aggFetch) |-> aggFetch[k].wx])
    /\ aggPc' = "done"
    /\ UNCHANGED <<aggGeom, aggFetch, aggFetchCount>>
    /\ UNCHANGED windVars
    /\ UNCHANGED routeVars
    /\ UNCHANGED pureVars

AggGeometries ==
    {MissingGeometry, [type |-> "MultiPoint", coordinates |-> <<P00, P01>>]}
        \cup {LineString(cs) : cs \in SeqsUpTo(GridPoints, MaxCoords)}
AggAnswers == {NoWeather, CalmObservation, Observation(0), Observation(90), Observation(225)}

InitAgg ==
    /\ aggGeom \in AggGeometries
    /\ aggPc = "start"
    /\ aggFetch = <<>>
    /\ aggFetchCount = 0
    /\ aggResult = NoResult
    /\ WindParked
    /\ RouteParked
    /\ PureParked

NextAgg ==
    \/ AggCall
    \/ AggFetchSettle(AggAnswers)
    \/ AggForecastDone

SpecAgg == InitAgg /\ [][NextAgg]_vars

-----------------------------------------------------------------------------
(* Claims about computeRouteWindImpact (SpecAgg) *)

DistinctPoints(cs) == Cardinality({cs[k] : k \in 1..Len(cs)})

\* C6: for a LineString with 2 or more distinct points and at least one
\* successful weather sample, tail + head + cross is 99, 100 or 101 and each
\* percentage lies in 0..100.
C6_PercentagesSumToAbout100 ==
    (/\ aggPc = "done"
     /\ aggGeom.type = "LineString"
     /\ DistinctPoints(aggGeom.coordinates) >= 2
     /\ \E k \in 1..Len(aggFetch) : aggFetch[k].wx.ok)
    => /\ aggResult.tail + aggResult.head + aggResult.cross \in {99, 100, 101}
       /\ aggResult.tail \in 0..100
       /\ aggResult.head \in 0..100
       /\ aggResult.cross \in 0..100

\* three buckets all filled and a sum that rounding moved off 100
C6_Witness ==
    /\ aggPc = "done"
    /\ \E k \in 1..Len(aggFetch) : aggFetch[k].wx.ok
    /\ aggResult.tail > 0
    /\ aggResult.head > 0
    /\ aggResult.cross > 0
    /\ aggResult.tail + aggResult.head + aggResult.cross # 100

\* C7: a missing geometry, one that is not a LineString, or one with fewer than
\* 2 coordinates returns exactly {tail: 0, head: 0, cross: 100} and no weather
\* fetch is issued.
C7_DegenerateGeometryNoFetch ==
    (\/ aggGeom.type # "LineString"
     \/ Len(aggGeom.coordinates) < 2)
    => /\ aggFetchCount = 0
       /\ aggFetch = <<>>
       /\ aggPc \in {"start", "done"}
       /\ aggPc = "done" => aggResult = [tail |-> 0, head |-> 0, cross |-> 100]

\* the call has returned for a LineString of exactly one coordinate
C7_Witness ==
    /\ aggPc = "done"
    /\ aggGeom.type = "LineString"
    /\ Len(aggGeom.coordinates) = 1
    /\ aggResult.cross = 100

-----------------------------------------------------------------------------
(* Claims about one calculateRoute request (SpecScore) *)

Selected(r) == reqs[r].outcome = "selected"
RouteOf(c) == RouteCatalogue[c.routeId]

\* C2: when calculateRoute has scored N >= 1 candidates, the list handed to
\* handleRouteSelection is in descending score order, holds exactly the N
\* scored candidates, and the route installed as selected is its first element.
C2_RankedDescendingAndComplete ==
    \A r \in DOMAIN reqs :
        Selected(r) =>
            LET o == reqs[r].selOptions
                n == Len(reqs[r].routes)
            IN  /\ n >= 1
                /\ Len(o) = n
                /\ \A i \in 1..(Len(o) - 1) : o[i].score >= o[i + 1].score
                /\ {o[i].originalIndex : i \in 1..Len(o)} = 1..n
                /\ \A i \in 1..Len(o) : o[i] = reqs[r].cands[o[i].originalIndex]
                /\ reqs[r].selRoute = installed(r, o[1])
                /\ currentRouteData = installed(r, o[1])

\* three candidates with three different scores, the best not returned first
C2_Witness ==
    /\ Selected(1)
    /\ Len(reqs[1].selOptions) = 3
    /\ reqs[1].selOptions[1].score > reqs[1].selOptions[2].score
    /\ reqs[1].selOptions[2].score > reqs[1].selOptions[3].score
    /\ reqs[1].selOptions[1].originalIndex = 3

\* C3: every composite score equals 50 + (tailwindPct - 50) + 0.5 cycleLanePct
\* + (2 scenicPct if 'prefer scenic') - 1.5 aRoadPct - 5 motorwayPct
\* - ascent / 10 - 2 (minutes slower than the request's fastest candidate)
\* - (50 if 'avoid A-roads' and aRoadPct > 5), in thirtieths of a point; with
\* aRoadPct = 5 the 50 points are not taken.
C3_CompositeScoreFormula ==
    \A r \in DOMAIN reqs :
        \A i \in 1..Len(reqs[r].cands) :
            LET rq == reqs[r]
                c == rq.cands[i]
                durations == {RouteCatalogue[rq.routes[k]].duration : k \in 1..Len(rq.routes)}
                fastest == CHOOSE d \in durations : \A e \in durations : d <= e
                secondsSlower == RouteOf(c).duration - fastest
                unpenalised ==
                    1500 + 30 * (c.windScore.percentage - 50)
                         + 15 * c.stats.cycleLanePct
                         + (IF rq.preferScenic THEN 60 * c.stats.scenicScore ELSE 0)
                         - 45 * c.stats.aRoadPct
                         - 150 * c.stats.motorwayPct
                         - 3 * c.ascent
                         - secondsSlower
            IN  c.pc = "scored" =>
                    /\ c.score = unpenalised
                                 - (IF rq.avoidARoads /\ c.stats.aRoadPct > 5 THEN 1500 ELSE 0)
                    /\ c.stats.aRoadPct = 5 => c.score = unpenalised

\* 'avoid A-roads' is checked and a scored candidate has aRoadPct = 5 exactly,
\* next to one with more than 5
C3_Witness ==
    /\ reqs[1].avoidARoads
    /\ reqs[1].preferScenic
    /\ \E i, j \in 1..Len(reqs[1].cands) :
          /\ reqs[1].cands[i].pc = "scored"
          /\ reqs[1].cands[i].stats.aRoadPct = 5
          /\ reqs[1].cands[i].ascent > 0
          /\ reqs[1].cands[j].pc = "scored"
          /\ reqs[1].cands[j].stats.aRoadPct > 5
          /\ RouteOf(reqs[1].cands[i]).duration > RouteOf(reqs[1].cands[j]).duration

\* C5: a request sorts and selects only when its candidate routes have been
\* returned, its wind fetch has resolved (the request is past that await) and
\* the analysis and the elevation query of every candidate have finished.
C5_RankOnlyAfterAllSettled ==
    \A r \in DOMAIN reqs :
        Selected(r) =>
            /\ reqs[r].routes # <<>>
            /\ Len(reqs[r].cands) = Len(reqs[r].routes)
            /\ \A i \in 1..Len(reqs[r].cands) : reqs[r].cands[i].pc = "scored"
            /\ Len(reqs[r].selOptions) = Len(reqs[r].routes)

\* a ranked request of three candidates whose wind fetch answered, ranked
\* while the map's terrain is off and the request itself did not switch it on
C5_Witness ==
    /\ Selected(1)
    /\ Len(reqs[1].routes) = 3
    /\ reqs[1].weather.ok
    /\ terrain = "off"
    /\ ~reqs[1].terrainResetNeeded

\* C8: when the wind fetch yields null the request goes on with bearing 0 for
\* every candidate's wind score; it ends without a selection only if a
\* candidate's own promise rejected, and otherwise all candidates are scored,
\* sorted and the first is selected.
C8_WindFailureFallsBackToZero ==
    \A r \in DOMAIN reqs :
        LET rq == reqs[r]
            pastWind == rq.pc = "awaitAll" \/ rq.outcome \in {"selected", "threw"}
        IN  (pastWind /\ ~rq.weather.ok) =>
                /\ rq.windBearing = 0
                /\ Len(rq.cands) = Len(rq.routes)
                /\ \A i \in 1..Len(rq.cands) :
                      rq.cands[i].windScore =
                          calculateRouteWindScore(RouteOf(rq.cands[i]).geometry, 0)
                /\ rq.outcome = "threw" => \E i \in 1..Len(rq.cands) : rq.cands[i].pc = "rejected"
                /\ rq.outcome = "selected" =>
                      /\ Len(rq.selOptions) = Len(rq.routes)
                      /\ \A i \in 1..(Len(rq.selOptions) - 1) :
                            rq.selOptions[i].score >= rq.selOptions[i + 1].score
                      /\ currentRouteData = installed(r, rq.selOptions[1])

\* the wind fetch failed and a route whose wind score is not 0 under bearing 0
\* was selected
C8_Witness ==
    /\ Selected(1)
    /\ ~reqs[1].weather.ok
    /\ Len(reqs[1].routes) >= 2
    /\ \E i \in 1..Len(reqs[1].cands) : reqs[1].cands[i].windScore.percentage > 0

\* C9 (as claimed): a request that reached the scoring of its candidates always
\* ends with all of them ranked and one selected, an elevation failure counting
\* as ascent 0.
C9_ElevationFailureStillRanks ==
    \A r \in DOMAIN reqs :
        (reqs[r].pc = "done" /\ reqs[r].cands # <<>>) =>
            /\ Selected(r)
            /\ Len(reqs[r].selOptions) = Len(reqs[r].routes)

\* C10: every composite score calculateRoute produces is a finite number.
C10_ScoresFinite ==
    \A r \in DOMAIN reqs :
        \A i \in 1..Len(reqs[r].cands) :
            reqs[r].cands[i].pc = "scored" =>
                /\ reqs[r].cands[i].finite
                /\ reqs[r].cands[i].stats.finite

\* scored together: a route of distance 0 without legs and a single coordinate,
\* and a route of distance 0 with duplicate points whose leg has a step; the
\* third candidate's elevation profile is empty or flat
C10_Witness ==
    /\ Selected(1)
    /\ \E i, j \in 1..Len(reqs[1].cands) :
          /\ reqs[1].cands[i].routeId = 4
          /\ reqs[1].cands[j].routeId = 5
          /\ reqs[1].cands[j].stats.aRoadPct = 700

-----------------------------------------------------------------------------
(* Spec: calculateRoute requests that overlap.  Every marker drag, geocoder     *)
(* result, reverse or reroute calls calculateRoute without waiting for the      *)
(* call before it; the collaborators answer each request in any order.          *)

OverlapResponses == {<<>>, <<1>>, <<3, 2>>}
OverlapPrefs == {[avoidARoads |-> TRUE, preferScenic |-> FALSE]}
OverlapWinds == {NoWeather, Observation(90)}
OverlapAnswers == {ElevAnswer([elev |-> [p \in GridPoints |-> 0], noData |-> {}]), ElevError}

Init == InitRoute(MaxRequests)

Next ==
    \/ StartRequest(MaxRequests)
    \/ \E r \in 1..MaxRequests : RoutesResolve(r, OverlapResponses, OverlapPrefs)
    \/ \E r \in 1..MaxRequests : MapIdle(r, OverlapPrefs)
    \/ \E r \in 1..MaxRequests : WindResolve(r, OverlapWinds, OverlapAnswers)
    \/ \E r \in 1..MaxRequests : CandidateIdle(r, OverlapAnswers)
    \/ \E r \in 1..MaxRequests : PromiseAllReject(r)
    \/ \E r \in 1..MaxRequests : RankAndSelect(r)
    \/ ToggleTerrain

Spec == Init /\ [][Next]_vars

\* C4 (as claimed): once every started request has finished and the most
\* recently started one selected a route, the route installed in
\* currentRouteData and drawn is that request's; an earlier request's late
\* result never replaces it.
C4_LastRequestWins ==
    (/\ nextReq >= 1
     /\ \A r \in 1..nextReq : reqs[r].pc = "done"
     /\ Selected(nextReq))
    => /\ currentRouteData.req = nextReq
       /\ drawnRoute.req = nextReq

-----------------------------------------------------------------------------
(* SpecFetch: map-engine.js, fetchRouteAlternatives (lines 138-241).  One call, *)
(* its parallel directions requests, the abort timer and the catch block.       *)

\* the alerts of the catch block (lines 230-236), by their first words
AlertFailed == "Failed to calculate route"
AlertNoRoute == "No cycling route found"
AlertTimedOut == "Route calculation timed out"

\* what is thrown inside the try block
NoRouteError == [name |-> "Error", message |-> "No route found"]
JoinTypeError == [name |-> "TypeError", message |-> "c.join is not a function"]
AbortError == [name |-> "AbortError", message |-> "The user aborted a request."]

\* lines 230-236: the message the catch block picks for an error
alertMessage(error) ==
    IF error.message = "No route found" THEN AlertNoRoute
    ELSE IF error.name = "AbortError" THEN AlertTimedOut
    ELSE AlertFailed

\* the states of one fetch(url, {signal}).then(r => r.ok ? r.json() : null)
\* chain, before its .catch: pending, fulfilled with a body, fulfilled with
\* null (r.ok false), or rejected by the network or by the abort signal
PendingFetch == [state |-> "pending", hasRoutes |-> FALSE, routes |-> <<>>]
JsonBody(routes) == [state |-> "json", hasRoutes |-> TRUE, routes |-> routes]
JsonWithoutRoutes == [state |-> "json", hasRoutes |-> FALSE, routes |-> <<>>]
HttpError == [state |-> "httpError", hasRoutes |-> FALSE, routes |-> <<>>]
NetworkError == [state |-> "networkError", hasRoutes |-> FALSE, routes |-> <<>>]
Aborted == [state |-> "aborted", hasRoutes |-> FALSE, routes |-> <<>>]

\* .catch(e => null): the value Promise.all receives for a settled chain is
\* the body, or null for every rejection whatever its error
chainIsNull(f) == f.state \in {"httpError", "networkError", "aborted"}

\* lines 201-206: responses.forEach(json => if (json && json.routes) push(...))
RECURSIVE collectRoutes(_)
collectRoutes(responses) ==
    IF responses = <<>> THEN <<>>
    ELSE LET json == Head(responses)
         IN  (IF ~chainIsNull(json) /\ json.hasRoutes THEN json.routes ELSE <<>>)
                 \o collectRoutes(Tail(responses))

Returned(routes) == [returned |-> TRUE, isNull |-> FALSE, routes |-> routes]
ReturnedNull == [returned |-> TRUE, isNull |-> TRUE, routes |-> <<>>]

\* lines 199-240 once Promise.all has resolved with responses
reportOf(responses) ==
    LET allRoutes == collectRoutes(responses)
    IN  IF Len(allRoutes) = 0
        THEN [alert |-> alertMessage(NoRouteError), result |-> Returned(<<>>)]
        ELSE [alert |-> "none", result |-> Returned(uniqueRoutes(allRoutes))]

\* the coordinates argument: unusable (line 141), an entry that is not an
\* array (c.join throws), a route with waypoints or a short hop (3 queries),
\* a start-to-end route of more than 2 km (5 queries)
CoordinateShapes == {"invalid", "malformed", "threeQueries", "jittered"}
numQueries(shape) == IF shape = "jittered" THEN 5 ELSE 3

\* lines 139-197 up to the await
FetchCall(shapes) ==
    /\ fxPc = "start"
    /\ \E shape \in shapes :
         IF shape = "invalid"
         THEN /\ fxPc' = "done"
              /\ fxResult' = ReturnedNull
              /\ UNCHANGED <<fxFetches, fxTimer, fxAlert>>
         ELSE IF shape = "malformed"
         THEN /\ fxPc' = "done"
              /\ fxAlert' = alertMessage(JoinTypeError)
              /\ fxResult' = Returned(<<>>)
              /\ UNCHANGED <<fxFetches, fxTimer>>
         ELSE /\ fxPc' = "awaitAll"
              /\ fxFetches' = [i \in 1..numQueries(shape) |-> PendingFetch]
              /\ fxTimer' = "armed"
              /\ UNCHANGED <<fxAlert, fxResult>>
    /\ UNCHANGED <<windVars, aggVars, routeVars, rankVars, statVars, radarVars, lateVars>>

\* one directions request settles: a body, a status that is not ok, or a
\* network failure
FetchSettle(answers) ==
    /\ fxPc = "awaitAll"
    /\ \E i \in DOMAIN fxFetches, a \in answers :
         /\ fxFetches[i] = PendingFetch
         /\ fxFetches' = [fxFetches EXCEPT ![i] = a]
    /\ UNCHANGED <<fxPc, fxTimer, fxAlert, fxResult>>
    /\ UNCHANGED <<windVars, aggVars, routeVars, rankVars, statVars, radarVars, lateVars>>

\* line 190: the timer fires after 15000 ms while a request is outstanding;
\* controller.abort() rejects every pending fetch with an AbortError
FetchTimeout ==
    /\ fxPc = "awaitAll"
    /\ fxTimer = "armed"
    /\ \E i \in DOMAIN fxFetches : fxFetches[i] = PendingFetch
    /\ fxTimer' = "fired"
    /\ fxFetches' = [i \in DOMAIN fxFetches |->
                        IF fxFetches[i] = PendingFetch THEN Aborted ELSE fxFetches[i]]
    /\ UNCHANGED <<fxPc, fxAlert, fxResult>>
    /\ UNCHANGED <<windVars, aggVars, routeVars, rankVars, statVars, radarVars, lateVars>>

\* lines 199-240: every chain has settled, Promise.all resolves
FetchAllSettled ==
    /\ fxPc = "awaitAll"
    /\ \A i \in DOMAIN fxFetches : fxFetches[i] # PendingFetch
    /\ LET report == reportOf(fxFetches)
       IN  /\ fxPc' = "done"
           /\ fxTimer' = IF fxTimer = "armed" THEN "cleared" ELSE fxTimer
           /\ fxAlert' = report.alert
           /\ fxResult' = report.result
    /\ UNCHANGED fxFetches
    /\ UNCHANGED <<windVars, aggVars, routeVars, rankVars, statVars, radarVars, lateVars>>

FetchAnswers ==
    {JsonBody(<<>>), JsonBody(<<1>>), JsonBody(<<3, 1>>), JsonWithoutRoutes,
     HttpError, NetworkError}

InitFetch ==
    /\ fxPc = "start"
    /\ fxFetches = <<>>
    /\ fxTimer = "none"
    /\ fxAlert = "none"
    /\ fxResult = NoFetchResult
    /\ EarlierParked
    /\ LateParked
    /\ RankParked
    /\ StatsParked
    /\ RadarParked

NextFetch ==
    \/ FetchCall(CoordinateShapes)
    \/ FetchSettle(FetchAnswers)
    \/ FetchTimeout
    \/ FetchAllSettled

SpecFetch == InitFetch /\ [][NextFetch]_vars

\* C11 (as claimed): a call whose 15 s timer fired ends with the timed-out
\* message and an empty result.
C11_TimeoutReportsTimedOut ==
    (fxPc = "done" /\ fxTimer = "fired") =>
        /\ fxAlert = alertMessage(AbortError)
        /\ fxResult = Returned(<<>>)

\* C12 (as claimed): when every directions request failed on the network or
\* was aborted, what the call reports (alert and returned value) differs from
\* what it reports when the service answered every request with zero routes.
C12_NetworkFailureDistinctFromNoRoute ==
    (/\ fxPc = "done"
     /\ fxFetches # <<>>
     /\ \A i \in DOMAIN fxFetches : fxFetches[i].state \in {"networkError", "aborted"})
        => [alert |-> fxAlert, result |-> fxResult]
              # reportOf([i \in DOMAIN fxFetches |-> JsonBody(<<>>)])

-----------------------------------------------------------------------------
(* SpecRank: app.js, calculateRoute lines 999-1041 for two candidates of one    *)
(* request that agree in everything but their ascent.                           *)

RankAscents == {0, 5, 500}
RankWindScores == {[percentage |-> 0], [percentage |-> 50], [percentage |-> 100]}
RankStats == {catalogueStats[id] : id \in RouteIds}
\* (duration, fastestDuration of the request) in seconds
RankDurations == {<<540, 540>>, <<600, 540>>}

\* line 1031 for the candidate at originalIndex with the given ascent
rankCandidate(args, originalIndex, ascent) ==
    [originalIndex |-> originalIndex,
     windScore |-> args.windScore,
     stats |-> args.stats,
     duration |-> args.duration,
     ascent |-> ascent,
     score |-> compositeScore30(args.windScore, args.stats, ascent, args.duration,
                                args.fastest, args.avoidARoads, args.preferScenic)]

\* lines 982-1041: both candidates scored, then scoredRoutes.sort
RankPair ==
    /\ rkArgs.given
    /\ rkRanked = <<>>
    /\ rkRanked' = sortRoutes(<<rankCandidate(rkArgs, 1, rkArgs.ascents[1]),
                                rankCandidate(rkArgs, 2, rkArgs.ascents[2])>>)
    /\ UNCHANGED rkArgs
    /\ UNCHANGED <<windVars, aggVars, routeVars, fetchVars, statVars, radarVars, lateVars>>

InitRank ==
    /\ \E w \in RankWindScores, st \in RankStats, d \in RankDurations,
          pref \in AllPrefs, a1 \in RankAscents, a2 \in RankAscents :
         rkArgs = [given |-> TRUE, windScore |-> w, stats |-> st,
                   duration |-> d[1], fastest |-> d[2],
                   avoidARoads |-> pref.avoidARoads, preferScenic |-> pref.preferScenic,
                   ascents |-> <<a1, a2>>]
    /\ rkRanked = <<>>
    /\ EarlierParked
    /\ LateParked
    /\ FetchParked
    /\ StatsParked
    /\ RadarParked

NextRank == RankPair

SpecRank == InitRank /\ [][NextRank]_vars

\* C13: of two candidates with the same wind score, road characteristics,
\* duration and toggles, the one with the smaller ascent has the strictly
\* higher composite score and stands before the other after the sort.
C13_LessAscentRanksFirst ==
    \A i, j \in DOMAIN rkRanked :
        rkRanked[i].ascent < rkRanked[j].ascent =>
            /\ rkRanked[i].score > rkRanked[j].score
            /\ i < j

\* ascent 500 m came first in the list and ascent 0 m second; the sort put
\* the 0 m candidate in front
C13_Witness ==
    /\ Len(rkRanked) = 2
    /\ rkRanked[1].ascent = 0 /\ rkRanked[1].originalIndex = 2
    /\ rkRanked[2].ascent = 500 /\ rkRanked[2].originalIndex = 1

-----------------------------------------------------------------------------
(* SpecStats: app.js, analyzeRouteCharacteristics (lines 3580-3630) called on   *)
(* routes built from a set of step names and references.                        *)

NoText == <<>>
A14 == <<"A","1","4">>
AbbeyRoad == <<"A","b","b","e","y"," ","R","o","a","d">>
LowerA14 == <<"a","1","4">>
BA14 == <<"B","A","1","4">>
A14b == <<"A","1","4","b">>
TheA406North == <<"T","h","e"," ","A","4","0","6"," ","N","o","r","t","h">>
JunctionM25 == <<"J","u","n","c","t","i","o","n","-","M","2","5">>
AOne == <<"A"," ","O","n","e">>
Greenway == <<"F","a","l","l","o","w","f","i","e","l","d"," ","G","r","e","e","n","w","a","y">>
Towpath == <<"T","O","W","P","A","T","H">>
HydePark == <<"H","y","d","e"," ","P","a","r","k">>
RefA406 == <<"A","4","0","6">>
RefM1 == <<"M","1">>
RefNCN4 == <<"N","C","N"," ","4">>
RefCycleway == <<"C","y","c","l","e","w","a","y"," ","7">>
RefB1050 == <<"B","1","0","5","0">>

StepNames == {NoText, A14, AbbeyRoad, M1ServiceArea, LowerA14, BA14, A14b, TheA406North,
              JunctionM25, AOne, CycleTrack, CanalPath, Greenway, Towpath, HydePark}
StepRefs == {NoText, RefA406, RefM1, RefNCN4, RefCycleway, RefB1050}

\* second steps of the two-leg routes
SecondSteps == {Step(700, HighStreet, NoText), Step(700, A14, NoText),
                Step(700, NoText, RefM1), Step(700, NoText, RefCycleway)}

StatRoute(distance, hasLegs, legs) ==
    [given |-> TRUE, distance |-> distance, hasLegs |-> hasLegs, legs |-> legs]

\* routes whose step list is missing or empty
StepLessRoutes ==
    {StatRoute(d, FALSE, <<>>) : d \in {0, 1000}}
        \cup {StatRoute(d, TRUE, legs) :
                d \in {0, 1000},
                legs \in {<<>>, <<Leg(<<>>)>>, <<Leg(<<>>), Leg(<<>>)>>,
                          <<LegWithoutSteps>>, <<Leg(<<>>), LegWithoutSteps>>}}

\* one step, or two legs of one step each; 1000 m in all
SteppedRoutes ==
    {StatRoute(1000, TRUE, <<Leg(<<Step(1000, n, r)>>)>>) : n \in StepNames, r \in StepRefs}
        \cup {StatRoute(1000, TRUE, <<Leg(<<Step(300, n, r)>>), Leg(<<s2>>)>>) :
                n \in StepNames, r \in StepRefs, s2 \in SecondSteps}
        \cup {StatRoute(1000, TRUE, <<Leg(<<Step(300, n, NoText)>>), LegWithoutSteps>>) :
                n \in {A14, CycleTrack}}

StatRoutes == StepLessRoutes \cup SteppedRoutes

\* the call: its result, or the TypeError it ended in
StatsCall ==
    /\ stRoute.given
    /\ ~stStats.called
    /\ stStats' = [called |-> TRUE, stats |-> analyzeRouteCharacteristics(stRoute)]
    /\ UNCHANGED stRoute
    /\ UNCHANGED <<windVars, aggVars, routeVars, fetchVars, rankVars, radarVars, lateVars>>

InitStats ==
    /\ stRoute \in StatRoutes
    /\ stStats = NoStats
    /\ EarlierParked
    /\ LateParked
    /\ FetchParked
    /\ RankParked
    /\ RadarParked

NextStats == StatsCall

SpecStats == InitStats /\ [][NextStats]_vars

\* the steps of the argument whose step list is not missing anywhere
StepsOfArg == IF stRoute.hasLegs /\ ~stepsThrow(stRoute) THEN AllSteps(stRoute.legs) ELSE <<>>

\* maximal runs of word characters of s that are the letter followed by one
\* or more digits and nothing else
HasRoadWord(letter, s) ==
    \E i \in 1..Len(s), j \in 1..Len(s) :
        /\ i < j
        /\ \A k \in i..j : IsWordChar(s[k])
        /\ (i = 1 \/ ~IsWordChar(s[i - 1]))
        /\ (j = Len(s) \/ ~IsWordChar(s[j + 1]))
        /\ s[i] = letter
        /\ \A k \in (i + 1)..j : IsDigit(s[k])

\* whole metres of the steps satisfying the set of indices, as a percentage
PctOfArg(matched) == RoundPct(DistWhere(StepsOfArg, matched), totalDist(stRoute))

SingleStep(name, ref) ==
    /\ stRoute.hasLegs
    /\ stRoute.legs = <<Leg(<<Step(1000, name, ref)>>)>>

\* C14: a step counts towards the A-road share exactly when its name or its
\* reference has the whole word A<digits>, and towards the motorway share
\* exactly when it has the whole word M<digits>; 'A14' is A-road, 'Abbey Road'
\* neither, 'M1 Service Area' motorway and not A-road.
C14_RoadClassesByWholeWord ==
    (stStats.called /\ ~stStats.stats.threw) =>
        LET idx == 1..Len(StepsOfArg)
            st == stStats.stats
        IN  /\ st.aRoadPct = PctOfArg({i \in idx : \/ HasRoadWord("A", StepsOfArg[i].name)
                                                   \/ HasRoadWord("A", StepsOfArg[i].ref)})
            /\ st.motorwayPct = PctOfArg({i \in idx : \/ HasRoadWord("M", StepsOfArg[i].name)
                                                      \/ HasRoadWord("M", StepsOfArg[i].ref)})
            /\ SingleStep(A14, NoText) => (st.aRoadPct = 100 /\ st.motorwayPct = 0)
            /\ SingleStep(AbbeyRoad, NoText) => (st.aRoadPct = 0 /\ st.motorwayPct = 0)
            /\ SingleStep(M1ServiceArea, NoText) => (st.aRoadPct = 0 /\ st.motorwayPct = 100)

\* the call on 300 m of 'The A406 North' followed by 700 m with reference M1
C14_Witness ==
    /\ stStats.called
    /\ stRoute.hasLegs
    /\ stRoute.legs = <<Leg(<<Step(300, TheA406North, NoText)>>),
                        Leg(<<Step(700, NoText, RefM1)>>)>>
    /\ stStats.stats.aRoadPct = 30
    /\ stStats.stats.motorwayPct = 70

CycleWords == {<<"c","y","c","l","e">>, <<"p","a","t","h">>,
               <<"g","r","e","e","n","w","a","y">>, <<"t","o","w","p","a","t","h">>}

\* C15 (as claimed): a step counts towards the cycle-friendly share whenever
\* its name or its reference contains, in any case, one of the cycle words,
\* or its reference contains 'ncn'.
C15_CycleWordsInNameOrRef ==
    (stStats.called /\ ~stStats.stats.threw) =>
        stStats.stats.cycleLanePct =
            PctOfArg({i \in 1..Len(StepsOfArg) :
                        \/ \E w \in CycleWords :
                              \/ Includes(toLowerCase(StepsOfArg[i].name), w)
                              \/ Includes(toLowerCase(StepsOfArg[i].ref), w)
                        \/ Includes(toLowerCase(StepsOfArg[i].ref), <<"n","c","n">>)})

\* the argument has no step at all: no legs, no leg with a step
HasNoStep ==
    \/ ~stRoute.hasLegs
    \/ \A i \in 1..Len(stRoute.legs) : stRoute.legs[i].steps = <<>>

\* C16 (as claimed): on a route whose step list is missing or empty the call
\* raises no error and all four percentages are 0.
C16_NoStepsGivesZeros ==
    (stStats.called /\ HasNoStep) =>
        /\ ~stStats.stats.threw
        /\ stStats.stats.aRoadPct = 0
        /\ stStats.stats.motorwayPct = 0
        /\ stStats.stats.cycleLanePct = 0
        /\ stStats.stats.scenicScore = 0

-----------------------------------------------------------------------------
(* SpecRadar: app.js, updateWeatherForProgress (lines 1621-1683).  Instants are *)
(* Date values: whole milliseconds, counted here from a midnight UTC.  progress *)
(* and durationHours * 60 * 60 * 1000 are fractions [n, d]; new Date(x) cuts x  *)
(* down to whole milliseconds.                                                  *)

MsPerMinute == 60 * 1000
MsPerHour == 60 * 60 * 1000
\* msPer15 (lines 1656 and 1679)
msPer15 == 15 * 60 * 1000

\* the instant hh:mm:ss.mmm
At(hh, mm, ms) == hh * MsPerHour + mm * MsPerMinute + ms

Frac(n, d) == [n |-> n, d |-> d]

\* new Date(start + x) for a whole start and a fraction x >= -start
DatePlus(start, x) == start + (x.n \div x.d)

startTimeOf_ignoresMode(timeMode, inputTime, durationMs) == inputTime

\* lines 1629-1634
startTimeOf(timeMode, inputTime, durationMs) ==
    IF timeMode = "arrive"
    THEN DatePlus(inputTime, Frac(-durationMs.n, durationMs.d))
    ELSE inputTime

\* line 1636
simulatedTimeOf(startTime, progress, durationMs) ==
    DatePlus(startTime, Frac(progress.n * durationMs.n, progress.d * durationMs.d))

\* line 1640
observationCutoff(now) == now - 20 * MsPerMinute

isForecast_atLeast(simulatedTime, now) == simulatedTime >= observationCutoff(now)

\* line 1644: simulatedTime > observationCutoff
isForecast(simulatedTime, now) == simulatedTime > observationCutoff(now)

modelRunOf_thisHour(now, tzOffset) == ((now + tzOffset) \div MsPerHour) * MsPerHour - tzOffset

\* lines 1646-1647: three hours before now, then setMinutes(0, 0, 0, 0), which
\* clears minutes, seconds and milliseconds of the local clock (UTC + tzOffset)
modelRunOf(now, tzOffset) ==
    (((now - 3 * MsPerHour) + tzOffset) \div MsPerHour) * MsPerHour - tzOffset

isShortRange_under(diffMs) == diffMs < 11 * MsPerHour

\* line 1655: diffHours <= 11
isShortRange(diffMs) == diffMs <= 11 * MsPerHour

\* lines 1656-1668: the short-range duration string
shortPt(diffMs) ==
    LET roundedDiff == RoundDiv(diffMs, msPer15) * msPer15
        totalMins == roundedDiff \div 60000
        h == totalMins \div 60
        m == totalMins % 60
    IN  [form |-> IF h = 0 /\ m = 0 THEN "PT0S"
                  ELSE IF h > 0 /\ m > 0 THEN "PThHmM"
                  ELSE IF h > 0 THEN "PThH" ELSE "PTmM",
         h |-> h, m |-> m]

\* lines 1670-1672: the long-range duration string
longPt(diffMs) == [form |-> "PThH", h |-> RoundDiv(diffMs, MsPerHour), m |-> 0]

\* toISOString().split('.')[0] + 'Z': the instant without its milliseconds
isoSeconds(t) == (t \div 1000) * 1000

\* lines 1644-1683: the frame the url names
frameFor(simulatedTime, now, tzOffset) ==
    IF isForecast(simulatedTime, now)
    THEN LET modelRun == modelRunOf(now, tzOffset)
             diffMs == simulatedTime - modelRun
         IN  [called |-> TRUE, chosen |-> TRUE, simulatedTime |-> simulatedTime,
              product |-> "total_precipitation_rate",
              config |-> IF isShortRange(diffMs) THEN "short" ELSE "long",
              time |-> isoSeconds(modelRun),
              ptStr |-> IF isShortRange(diffMs) THEN shortPt(diffMs) ELSE longPt(diffMs)]
    ELSE [called |-> TRUE, chosen |-> TRUE, simulatedTime |-> simulatedTime,
          product |-> "rainfall_radar",
          config |-> "none",
          time |-> isoSeconds(RoundDiv(simulatedTime, msPer15) * msPer15),
          ptStr |-> [form |-> "none", h |-> 0, m |-> 0]]

\* the call, up to the url
UpdateWeather ==
    /\ wxArgs.given
    /\ ~wxFrame.called
    /\ IF ~wxArgs.hasTime
       THEN wxFrame' = [called |-> TRUE, chosen |-> FALSE]
       ELSE LET startTime == startTimeOf(wxArgs.timeMode, wxArgs.inputTime, wxArgs.durationMs)
                simulatedTime == simulatedTimeOf(startTime, wxArgs.progress, wxArgs.durationMs)
            IN  wxFrame' = frameFor(simulatedTime, wxArgs.now, wxArgs.tzOffset)
    /\ UNCHANGED wxArgs
    /\ UNCHANGED <<windVars, aggVars, routeVars, fetchVars, rankVars, statVars, lateVars>>

\* the clock when the call is made
RadarNows == {At(9, 0, 0), At(10, 20, 0), At(10, 30, 0), At(11, 59, 59999)}
\* #route-time (datetime-local: whole minutes)
RadarInputs == {At(6, 0, 0), At(8, 0, 0), At(10, 0, 0), At(10, 7, 0), At(10, 10, 0),
                At(18, 0, 0), At(18, 7, 0), At(21, 0, 0)}
\* durationHours in milliseconds: none, 4 ms, 2 min, 1 h, 2 h, 180022.25 ms
RadarDurations == {Frac(0, 1), Frac(4, 1), Frac(2 * MsPerMinute, 1), Frac(MsPerHour, 1),
                   Frac(2 * MsPerHour, 1), Frac(720089, 4)}
RadarProgress == {Frac(0, 1), Frac(1, 4), Frac(1, 2), Frac(3, 4), Frac(1, 1)}
\* local clock minus UTC: Greenwich, and a zone of five and a half hours
RadarZones == {0, At(5, 30, 0)}

InitRadar ==
    /\ \/ wxArgs = [given |-> TRUE, hasTime |-> FALSE]
       \/ \E now \in RadarNows, inputTime \in RadarInputs, d \in RadarDurations,
             p \in RadarProgress, mode \in {"depart", "arrive"}, tz \in RadarZones :
            wxArgs = [given |-> TRUE, hasTime |-> TRUE, timeMode |-> mode,
                      inputTime |-> inputTime, durationMs |-> d, progress |-> p,
                      now |-> now, tzOffset |-> tz]
    /\ wxFrame = NoFrame
    /\ EarlierParked
    /\ LateParked
    /\ FetchParked
    /\ RankParked
    /\ StatsParked

NextRadar == UpdateWeather

SpecRadar == InitRadar /\ [][NextRadar]_vars

\* (simulatedTime - entered time) * den and the exact value of
\* (journeyStart + progress * duration - entered time) * den, den being the
\* common denominator of progress * duration
RadarDen == wxArgs.progress.d * wxArgs.durationMs.d
SimulatedOffset == wxFrame.simulatedTime - wxArgs.inputTime
ExactOffsetNum ==
    wxArgs.progress.n * wxArgs.durationMs.n
        - (IF wxArgs.timeMode = "arrive" THEN wxArgs.durationMs.n * wxArgs.progress.d ELSE 0)

\* C17 (as claimed): the simulated time is exactly journeyStart + progress *
\* duration, journeyStart being the entered time (depart) or the entered time
\* minus the duration (arrive); depart at progress 0 and arrive at progress 1
\* both give the entered time.
C17_SimulatedTimeExact ==
    wxFrame.chosen =>
        /\ SimulatedOffset * RadarDen = ExactOffsetNum
        /\ (wxArgs.timeMode = "depart" /\ wxArgs.progress.n = 0)
              => wxFrame.simulatedTime = wxArgs.inputTime
        /\ (wxArgs.timeMode = "arrive" /\ wxArgs.progress.n = wxArgs.progress.d)
              => wxFrame.simulatedTime = wxArgs.inputTime

\* C17 (amended): the simulated time is journeyStart + progress * duration cut
\* down to whole milliseconds, once per Date (once in depart mode, twice in
\* arrive mode); depart at progress 0 gives the entered time, arrive at
\* progress 1 gives the entered time or the millisecond before it, and the
\* entered time itself when the duration is a whole number of milliseconds.
C17_SimulatedTimeToTheMillisecond ==
    wxFrame.chosen =>
        LET cuts == IF wxArgs.timeMode = "arrive" THEN 2 ELSE 1
        IN  /\ SimulatedOffset * RadarDen <= ExactOffsetNum
            /\ ExactOffsetNum < (SimulatedOffset + cuts) * RadarDen
            /\ (wxArgs.timeMode = "depart" /\ wxArgs.progress.n = 0)
                  => wxFrame.simulatedTime = wxArgs.inputTime
            /\ (wxArgs.timeMode = "arrive" /\ wxArgs.progress.n = wxArgs.progress.d)
                  => /\ wxFrame.simulatedTime \in {wxArgs.inputTime - 1, wxArgs.inputTime}
                     /\ (wxArgs.durationMs.n % wxArgs.durationMs.d = 0
                            => wxFrame.simulatedTime = wxArgs.inputTime)

\* arrive by 18:00 after 180022.25 ms, at progress 1: 17:59:59.999
C17_Witness ==
    /\ wxFrame.chosen
    /\ wxArgs.timeMode = "arrive"
    /\ wxArgs.inputTime = At(18, 0, 0)
    /\ wxArgs.durationMs = Frac(720089, 4)
    /\ wxArgs.progress = Frac(1, 1)
    /\ wxFrame.simulatedTime = At(17, 59, 59999)

AbsDiff(a, b) == IF a >= b THEN a - b ELSE b - a

\* C18 (as claimed): the rainfall radar observation is chosen exactly when the
\* simulated time is more than 20 minutes before now, for the quarter hour
\* nearest to the simulated time; a simulated time exactly 20 minutes before
\* now, like every later one, gets a forecast.
C18_ObservationIffOlderThan20Min ==
    wxFrame.chosen =>
        /\ (wxFrame.product = "rainfall_radar")
              <=> (wxArgs.now - wxFrame.simulatedTime > 20 * MsPerMinute)
        /\ (wxFrame.product = "rainfall_radar")
              => /\ wxFrame.time % msPer15 = 0
                 /\ 2 * AbsDiff(wxFrame.time, wxFrame.simulatedTime) <= msPer15

\* C19 (as claimed): a forecast's model run is the latest instant on a 3-hour
\* boundary at or before now.
C19_ModelRunThreeHourAligned ==
    (wxFrame.chosen /\ wxFrame.product = "total_precipitation_rate") =>
        /\ wxFrame.time <= wxArgs.now
        /\ wxArgs.now - wxFrame.time < 3 * MsPerHour
        /\ wxFrame.time % (3 * MsPerHour) = 0

\* C19 (amended): a forecast's model run is the start of the local-clock hour
\* that holds the instant three hours before now: at least 3 and less than 4
\* hours older than now, with minutes, seconds and milliseconds zero on the
\* local clock.
C19_ModelRunHourThreeHoursBack ==
    (wxFrame.chosen /\ wxFrame.product = "total_precipitation_rate") =>
        /\ wxArgs.now - wxFrame.time >= 3 * MsPerHour
        /\ wxArgs.now - wxFrame.time < 4 * MsPerHour
        /\ (wxFrame.time + wxArgs.tzOffset) % MsPerHour = 0

\* at 10:30 UTC the forecast is taken from the 07:00 run
C19_Witness ==
    /\ wxFrame.chosen
    /\ wxFrame.product = "total_precipitation_rate"
    /\ wxArgs.now = At(10, 30, 0)
    /\ wxArgs.tzOffset = 0
    /\ wxFrame.time = At(7, 0, 0)

\* C20: with lead time L = simulatedTime - modelRun, a forecast is short-range
\* with L rounded to the nearest 15 minutes when L <= 11 h, and long-range with
\* L rounded to the nearest whole hour when L > 11 h.
C20_LeadTimeBuckets ==
    (wxFrame.chosen /\ wxFrame.product = "total_precipitation_rate") =>
        LET L == wxFrame.simulatedTime - wxFrame.time
            lead == wxFrame.ptStr.h * MsPerHour + wxFrame.ptStr.m * MsPerMinute
        IN  /\ L <= 11 * MsPerHour =>
                  /\ wxFrame.config = "short"
                  /\ wxFrame.ptStr.m \in {0, 15, 30, 45}
                  /\ 2 * AbsDiff(lead, L) <= msPer15
            /\ L > 11 * MsPerHour =>
                  /\ wxFrame.config = "long"
                  /\ wxFrame.ptStr.form = "PThH"
                  /\ wxFrame.ptStr.m = 0
                  /\ 2 * AbsDiff(lead, L) <= MsPerHour

\* the 07:00 run and a simulated time of 18:00: short-range, PT11H
C20_Witness ==
    /\ wxFrame.chosen
    /\ wxFrame.product = "total_precipitation_rate"
    /\ wxFrame.time = At(7, 0, 0)
    /\ wxFrame.simulatedTime = At(18, 0, 0)
    /\ wxFrame.config = "short"
    /\ wxFrame.ptStr = [form |-> "PThH", h |-> 11, m |-> 0]

-----------------------------------------------------------------------------
(* Further claims about computeRouteWindImpact (SpecAgg) *)

\* the observation fetched at each sample point, in sample order
AggObservations == [k \in 1..Len(aggFetch) |-> aggFetch[k].wx]

\* the class the claim gives segment i (from 0): that of the observation at the
\* sample point nearest by index, crosswind when that fetch failed
ClassBySamplePoint(coords, i) ==
    LET wd == AggObservations[closestSampleIdx(i, sampleIndicesOf(Len(coords)))]
    IN  IF wd.ok /\ wd.hasBearing
        THEN calculateWindImpact(calculateBearing(coords[i + 1], coords[i + 2]), wd.bearing)
        ELSE "crosswind"

\* metres of the non-zero segments the claim puts in a class
MetresBySamplePoint(coords, class) ==
    SumSeq([k \in 1..(Len(coords) - 1) |->
               IF ClassBySamplePoint(coords, k - 1) = class
               THEN haversineMetres(coords[k], coords[k + 1]) ELSE 0])

\* C22 (as claimed): every non-zero segment is classified with the observation
\* of the sample point nearest to it by index, and as crosswind when that
\* sample's fetch failed, whatever the pattern of failed fetches.
C22_SegmentUsesItsOwnSample ==
    (aggPc = "done" /\ ~invalidWindGeometry(aggGeom)) =>
        LET coords == aggGeom.coordinates
            tailM == MetresBySamplePoint(coords, "tailwind")
            headM == MetresBySamplePoint(coords, "headwind")
            crossM == MetresBySamplePoint(coords, "crosswind")
            totalM == IF tailM + headM + crossM = 0 THEN 1 ELSE tailM + headM + crossM
        IN  /\ aggResult.tail = RoundPct(tailM, totalM)
            /\ aggResult.head = RoundPct(headM, totalM)
            /\ aggResult.cross = RoundPct(crossM, totalM)

\* C23 (as claimed): a LineString of 2 or more coordinates whose segments all
\* have zero length gives {tail: 0, head: 0, cross: 100}.
C23_ZeroLengthIsAllCrosswind ==
    (/\ aggPc = "done"
     /\ ~invalidWindGeometry(aggGeom)
     /\ DistinctPoints(aggGeom.coordinates) = 1)
        => aggResult = [tail |-> 0, head |-> 0, cross |-> 100]

-----------------------------------------------------------------------------
(* Further claim about overlapping calculateRoute requests (Spec) *)

\* C30 (as claimed): once every started calculateRoute invocation has
\* completed, the plan button is enabled and shows the label it had before
\* the first of them began.
C30_PlanButtonRestored ==
    (nextReq > 0 /\ \A r \in DOMAIN reqs : reqs[r].pc \in {"idle", "done"})
        => planBtn = [disabled |-> FALSE, label |-> "Plan Route"]

-----------------------------------------------------------------------------
(* SpecTurf: geo-logic.js, calculateWindImpact as calculateRouteWindScore calls *)
(* it (app.js line 2018-2019): the segment bearing is turf.bearing's, in        *)
(* (-180, 180], the wind bearing is in [0, 360).                                *)

TurfBearings == -179..180

InitTurf ==
    /\ segB \in TurfBearings
    /\ windB \in Bearings
    /\ impact = "none"
    /\ AggParked
    /\ RouteParked
    /\ PureParked

SpecTurf == InitTurf /\ [][NextWind]_vars

\* C25 (as claimed): for the bearings calculateRouteWindScore passes, the
\* class depends only on the two bearings modulo 360, and a segment is
\* tailwind only if its angular distance to the wind-toward bearing is
\* below 45 degrees.
C25_TurfBearingsClassifiedByTrueAngle ==
    impact # "none" =>
        /\ impact = calculateWindImpact(segB % 360, windB)
        /\ impact = "tailwind" => AngularDistance(segB, (windB + 180) % 360) < 45

-----------------------------------------------------------------------------
(* SpecForecast: fetchRouteForecast over one to MaxPoints points, each with  *)
(* its own fetchWindAtLocation (weather-api.js)                              *)

\* what the weather service does with one request
NetworkFailure == [arrives |-> FALSE, ok |-> FALSE, json |-> FALSE, success |-> FALSE,
                   responses |-> -1, periods |-> -1, hasBearing |-> FALSE, bearing |-> 0]
\* a response: response.ok, whether its body parses, data.success, the length of
\* data.response and of data.response[0].periods (-1 when the field is missing)
HttpResponse(ok, json, success, responses, periods, hasBearing, bearing) ==
    [arrives |-> TRUE, ok |-> ok, json |-> json, success |-> success,
     responses |-> responses, periods |-> periods, hasBearing |-> hasBearing,
     bearing |-> bearing]

\* lines 28-53, the body of the try: the value returned, or threw = TRUE
fetchWindAtLocationBody(r) ==
    IF ~r.arrives THEN [threw |-> TRUE, value |-> NoWeather]            \* await fetch(url)
    ELSE IF ~r.ok THEN [threw |-> TRUE, value |-> NoWeather]            \* line 30
    ELSE IF ~r.json THEN [threw |-> TRUE, value |-> NoWeather]          \* response.json()
    ELSE IF ~r.success \/ r.responses = -1 \/ r.responses = 0
         THEN [threw |-> TRUE, value |-> NoWeather]                     \* line 37
    ELSE IF r.periods = -1 THEN [threw |-> TRUE, value |-> NoWeather]   \* undefined[0]
    ELSE IF r.periods = 0 THEN [threw |-> TRUE, value |-> NoWeather]    \* undefined.timestamp
    ELSE [threw |-> FALSE,
          value |-> IF r.hasBearing THEN Observation(r.bearing) ELSE CalmObservation]

Fulfilled(v) == [state |-> "fulfilled", value |-> v]
Rejected == [state |-> "rejected", value |-> NoWeather]
PendingPromise == [state |-> "pending", value |-> NoWeather]

fetchWindAtLocation_rethrows(r) ==
    LET body == fetchWindAtLocationBody(r)
    IN  IF body.threw THEN Rejected ELSE Fulfilled(body.value)

\* lines 13-60: the promise of the async function; the catch of line 56 turns
\* every exception of the body into null
fetchWindAtLocation(r) ==
    LET body == fetchWindAtLocationBody(r)
    IN  IF body.threw THEN Fulfilled(NoWeather) ELSE Fulfilled(body.value)

MaxPoints == 3

ForecastResponses ==
    {NetworkFailure,
     HttpResponse(FALSE, TRUE, FALSE, -1, -1, FALSE, 0),
     HttpResponse(TRUE, FALSE, FALSE, -1, -1, FALSE, 0),
     HttpResponse(TRUE, TRUE, FALSE, 1, 1, TRUE, 90),
     HttpResponse(TRUE, TRUE, TRUE, -1, -1, FALSE, 0),
     HttpResponse(TRUE, TRUE, TRUE, 0, -1, FALSE, 0),
     HttpResponse(TRUE, TRUE, TRUE, 1, -1, FALSE, 0),
     HttpResponse(TRUE, TRUE, TRUE, 1, 0, FALSE, 0),
     HttpResponse(TRUE, TRUE, TRUE, 1, 1, FALSE, 0),
     HttpResponse(TRUE, TRUE, TRUE, 1, 1, TRUE, 90)}

\* line 71: points.map(pt => fetchWindAtLocation(...)), every request in flight
ForecastCall ==
    /\ wfPc = "start"
    /\ wfPromises' = [k \in 1..Len(wfResponses) |-> PendingPromise]
    /\ wfPc' = "awaitAll"
    /\ UNCHANGED <<wfResponses, wfForecast>>
    /\ UNCHANGED <<coreVars, sampleVars, navVars, liveVars>>

\* one fetchWindAtLocation settles
ForecastPointSettle ==
    /\ wfPc = "awaitAll"
    /\ \E k \in 1..Len(wfPromises) :
          /\ wfPromises[k].state = "pending"
          /\ wfPromises' = [wfPromises EXCEPT ![k] = fetchWindAtLocation(wfResponses[k])]
    /\ UNCHANGED <<wfResponses, wfPc, wfForecast>>
    /\ UNCHANGED <<coreVars, sampleVars, navVars, liveVars>>

\* lines 73-79: Promise.all fulfils when every promise has, and rejects with the
\* first rejection; the catch returns []
ForecastSettle ==
    /\ wfPc = "awaitAll"
    /\ LET anyRejected == \E k \in 1..Len(wfPromises) : wfPromises[k].state = "rejected"
           allFulfilled == \A k \in 1..Len(wfPromises) : wfPromises[k].state = "fulfilled"
       IN  /\ anyRejected \/ allFulfilled
           /\ wfForecast' =
                 [settled |-> TRUE, rejected |-> FALSE,
                  value |-> IF anyRejected THEN <<>>
                            ELSE fetchRouteForecast([k \in 1..Len(wfPromises) |->
                                                        wfPromises[k].value])]
    /\ wfPc' = "done"
    /\ UNCHANGED <<wfResponses, wfPromises>>
    /\ UNCHANGED <<coreVars, sampleVars, navVars, liveVars>>

InitForecast ==
    /\ wfResponses \in SeqsUpTo(ForecastResponses, MaxPoints) \ {<<>>}
    /\ wfPromises = <<>>
    /\ wfPc = "start"
    /\ wfForecast = NoForecast
    /\ EarlierParked
    /\ CoreParked
    /\ SampleParked
    /\ NavParked
    /\ LiveParked

NextForecast ==
    \/ ForecastCall
    \/ ForecastPointSettle
    \/ ForecastSettle

SpecForecast == InitForecast /\ [][NextForecast]_vars

FailedResponse(r) == fetchWindAtLocationBody(r).threw

\* C21: fetchWindAtLocation never throws into its caller: after a network
\* error, a non-OK status, an unsuccessful or empty body, or a response with no
\* periods its promise is fulfilled with null; and the promise of
\* fetchRouteForecast is never rejected, whether some or all of the per-point
\* fetches failed.
C21_FailuresResolveToNull ==
    /\ \A k \in 1..Len(wfPromises) :
          /\ wfPromises[k].state # "rejected"
          /\ (wfPromises[k].state = "fulfilled" /\ FailedResponse(wfResponses[k]))
                => wfPromises[k].value = NoWeather
    /\ ~wfForecast.rejected
    /\ wfForecast.settled =>
          Len(wfForecast.value) =
              Cardinality({k \in 1..Len(wfResponses) : ~FailedResponse(wfResponses[k])})

\* every kind of failure has happened to some point of one forecast, one point
\* was answered, and the forecast has resolved to the one observation
C21_Witness ==
    /\ wfPc = "done"
    /\ Len(wfResponses) = 3
    /\ wfResponses[1] = NetworkFailure
    /\ wfResponses[2].periods = 0
    /\ wfResponses[3] = HttpResponse(TRUE, TRUE, TRUE, 1, 1, TRUE, 90)
    /\ wfForecast = [settled |-> TRUE, rejected |-> FALSE, value |-> <<Observation(90)>>]

-----------------------------------------------------------------------------
(* SpecSample: the sampling plan of computeRouteWindImpact for geometries    *)
(* of 2 to MaxDenseCoords coordinates (app.js:3514-3529)                     *)

\* long enough for floor(n / 50) + 2 to pass the ceiling of 15
MaxDenseCoords == 720

\* lines 3516-3529: numSamples, sampleIndices, and one fetchWindAtLocation for
\* each of the sample points handed to fetchRouteForecast
SamplePlan ==
    /\ ~smPlan.called
    /\ smPlan' = [called |-> TRUE,
                  numSamples |-> numSamplesOf(smCoords),
                  sampleIndices |-> sampleIndicesOf(smCoords),
                  fetches |-> Len(sampleIndicesOf(smCoords))]
    /\ UNCHANGED smCoords
    /\ UNCHANGED <<coreVars, forecastVars, navVars, liveVars>>

InitSample ==
    /\ smCoords \in 2..MaxDenseCoords
    /\ smPlan = NoPlan
    /\ EarlierParked
    /\ CoreParked
    /\ ForecastParked
    /\ NavParked
    /\ LiveParked

NextSample == SamplePlan

SpecSample == InitSample /\ [][NextSample]_vars

\* C24: for n >= 2 coordinates numSamples = min(15, max(3, floor(n/50) + 2));
\* the sample indices are non-decreasing, lie in 0..n-1, start at 0 and end at
\* n-1, and exactly numSamples weather fetches are requested.
C24_SamplePlanBounded ==
    smPlan.called =>
        LET n == smCoords
            scaled == (n \div 50) + 2
            idx == smPlan.sampleIndices
        IN  /\ smPlan.numSamples =
                  (IF scaled < 3 THEN 3 ELSE IF scaled > 15 THEN 15 ELSE scaled)
            /\ Len(idx) = smPlan.numSamples
            /\ \A k \in 1..Len(idx) : idx[k] \in 0..(n - 1)
            /\ \A k \in 1..(Len(idx) - 1) : idx[k] <= idx[k + 1]
            /\ idx[1] = 0
            /\ idx[Len(idx)] = n - 1
            /\ smPlan.fetches = smPlan.numSamples

\* a geometry dense enough to reach the ceiling: 15 samples, 15 fetches
C24_Witness ==
    /\ smPlan.called
    /\ smCoords = 700
    /\ smPlan.numSamples = 15
    /\ smPlan.fetches = 15
    /\ smPlan.sampleIndices[15] = 699

-----------------------------------------------------------------------------
(* SpecNav: live navigation (app.js): position updates of the geolocation    *)
(* watch, the wrong-way alert, automatic rerouting, voice instructions       *)

MaxSeconds == 4
MaxInstalls == 3
MaxReroutes == 2

\* a route as currentRouteData holds it: req counts the installations
NavRoute(install, id) == [req |-> install, routeId |-> id, score |-> 0]
NavRouteIds == {1, 2}
\* the indices of legs[0].steps, two steps on every route
NavStepIndices == {0, 1}
\* |heading - normRouteBearing| folded into 0..180
NavDiffs == {0, 120, 121, 180}

\* lines 2599-2604
showWrongWayAlert(w) == [w EXCEPT !.isAlerting = TRUE]

\* lines 2606-2611
hideWrongWayAlert(w) == [w EXCEPT !.isAlerting = FALSE, !.active = FALSE]

\* lines 2534-2543, with now = Date.now()
wrongWayCheck(w, diff, now) ==
    IF diff > 120
    THEN IF ~w.active THEN [w EXCEPT !.active = TRUE, !.startTime = now]
         ELSE IF now - w.startTime > 3000 /\ ~w.isAlerting THEN showWrongWayAlert(w)
         ELSE w
    ELSE IF w.isAlerting THEN hideWrongWayAlert(w) ELSE w

shouldReroute_unguarded(navigating, hasRoute, rerouting, offRoute) ==
    navigating /\ hasRoute /\ offRoute

\* lines 2504-2511: isNavigating && currentRouteData && !isRerouting, dist > 0.05
shouldReroute(navigating, hasRoute, rerouting, offRoute) ==
    navigating /\ hasRoute /\ ~rerouting /\ offRoute

\* lines 2585-2595: the forEach over the steps in order; near holds the indices
\* of the steps within 40 m
voiceCursor(last, near) ==
    LET spoken == {i \in near : i > last}
    IN  IF spoken = {} THEN last ELSE CHOOSE i \in spoken : \A j \in spoken : j <= i

\* toggleNavigation -> startLiveTracking, lines 2298-2302 and the watch of 2379
StartLiveTracking ==
    /\ ~isNavigating
    /\ isNavigating' = TRUE
    /\ UNCHANGED <<isRerouting, wrongWayState, lastSpokenStepIndex, clock, reroutes,
                   navTrace>>
    /\ UNCHANGED <<coreVars, forecastVars, sampleVars, liveVars>>

\* toggleNavigation -> stopLiveTracking, lines 2981-2997
StopLiveTracking ==
    /\ isNavigating
    /\ isNavigating' = FALSE
    /\ lastSpokenStepIndex' = -1
    /\ wrongWayState' = hideWrongWayAlert(wrongWayState)
    /\ navTrace' = NoTrace
    /\ UNCHANGED <<isRerouting, clock, reroutes>>
    /\ UNCHANGED <<coreVars, forecastVars, sampleVars, liveVars>>

\* handlePositionUpdate, lines 2471-2597, called by the watch while navigating.
\* checked: heading is not null, speed > 1.5 and the route goes on for 20 m;
\* diff: the folded heading difference; offRoute: more than 50 m from the line.
\* The synchronous part of performAutomaticReroute (line 2632) runs inside.
HandlePositionUpdate(diff, checked, offRoute, near) ==
    /\ isNavigating
    /\ LET hasRoute == currentRouteData # NoRoute
           reroute == shouldReroute(isNavigating, hasRoute, isRerouting, offRoute)
           wws == IF hasRoute /\ checked
                  THEN wrongWayCheck(wrongWayState, diff, clock)
                  ELSE wrongWayState
           cursor == IF hasRoute THEN voiceCursor(lastSpokenStepIndex, near)
                     ELSE lastSpokenStepIndex
           since == IF ~(hasRoute /\ checked) THEN navTrace.wrongSince
                    ELSE IF diff <= 120 THEN -1
                    ELSE IF navTrace.wrongSince = -1 THEN clock
                    ELSE navTrace.wrongSince
       IN  /\ reroute => reroutes.started < MaxReroutes
           /\ isRerouting' = (isRerouting \/ reroute)
           /\ reroutes' = IF reroute
                          THEN [reroutes EXCEPT !.started = @ + 1, !.inFlight = @ + 1]
                          ELSE reroutes
           /\ wrongWayState' = wws
           /\ lastSpokenStepIndex' = cursor
           /\ navTrace' =
                 [wrongSince |-> since,
                  alertAfter |-> IF wws.isAlerting /\ ~wrongWayState.isAlerting
                                 THEN clock - since
                                 ELSE IF ~wws.isAlerting THEN -1
                                 ELSE navTrace.alertAfter,
                  spokenFor |-> IF cursor # lastSpokenStepIndex THEN currentRouteData
                                ELSE navTrace.spokenFor]
    /\ UNCHANGED <<isNavigating, clock>>
    /\ UNCHANGED <<coreVars, forecastVars, sampleVars, liveVars>>

\* handleRouteSelection, lines 1177-1181: the route is installed and drawn
InstallRoute(id) ==
    /\ currentRouteData.req < MaxInstalls
    /\ currentRouteData' = NavRoute(currentRouteData.req + 1, id)
    /\ drawnRoute' = NavRoute(currentRouteData.req + 1, id)
    /\ UNCHANGED <<terrain, nextReq, reqs, planBtn>>

\* the await of line 2666 is over: calculateRoute selected a route through
\* handleRouteSelection (line 1045), found none, or threw; then the finally
RerouteSettle(outcome, id) ==
    /\ reroutes.inFlight > 0
    /\ IF outcome = "selected" THEN InstallRoute(id) ELSE UNCHANGED routeVars
    /\ isRerouting' = FALSE
    /\ reroutes' = [reroutes EXCEPT !.inFlight = @ - 1, !.lastOutcome = outcome]
    /\ UNCHANGED <<isNavigating, wrongWayState, lastSpokenStepIndex, clock, navTrace>>
    /\ UNCHANGED <<windVars, aggVars, fetchVars, rankVars, statVars, radarVars>>
    /\ UNCHANGED <<forecastVars, sampleVars, liveVars>>

\* the rider picks another option (line 1273)
SelectRoute(id) ==
    /\ InstallRoute(id)
    /\ UNCHANGED navVars
    /\ UNCHANGED <<windVars, aggVars, fetchVars, rankVars, statVars, radarVars>>
    /\ UNCHANGED <<forecastVars, sampleVars, liveVars>>

\* time passes between two callbacks
Tick ==
    /\ clock < MaxSeconds * 1000
    /\ clock' = clock + 1000
    /\ UNCHANGED <<isNavigating, isRerouting, wrongWayState, lastSpokenStepIndex,
                   reroutes, navTrace>>
    /\ UNCHANGED <<coreVars, forecastVars, sampleVars, liveVars>>

InitNav ==
    /\ NavParked
    /\ currentRouteData = NavRoute(1, 1)
    /\ drawnRoute = NavRoute(1, 1)
    /\ terrain = "off"
    /\ nextReq = 0
    /\ reqs = <<>>
    /\ planBtn = [disabled |-> FALSE, label |-> "Plan Route"]
    /\ WindParked
    /\ AggParked
    /\ CoreParked
    /\ ForecastParked
    /\ SampleParked
    /\ LiveParked

NextNav ==
    \/ StartLiveTracking
    \/ StopLiveTracking
    \/ \E diff \in NavDiffs, checked \in BOOLEAN, offRoute \in BOOLEAN,
          near \in SUBSET NavStepIndices :
          HandlePositionUpdate(diff, checked, offRoute, near)
    \/ \E outcome \in {"selected", "noRoute", "threw"}, id \in NavRouteIds :
          RerouteSettle(outcome, id)
    \/ \E id \in NavRouteIds : SelectRoute(id)
    \/ Tick

SpecNav == InitNav /\ [][NextNav]_vars

\* C26: the wrong-way alert is raised only after the heading has differed from
\* the route direction by more than 120 degrees continuously for more than 3
\* seconds: an update with a heading within 120 degrees restarts the
\* measurement at the next wrong-way update.
C26_AlertAfterContinuousWrongWay ==
    wrongWayState.isAlerting => navTrace.alertAfter > 3000

\* C27: at most one automatic reroute is in flight; while one is, isRerouting
\* is true and no position update starts another; isRerouting is false again
\* once its calculateRoute completed, whether it selected a route, found none
\* or threw.
C27_OneRerouteInFlight ==
    /\ reroutes.inFlight <= 1
    /\ isRerouting <=> (reroutes.inFlight = 1)

\* a second reroute is in flight after the first one's calculateRoute threw
C27_Witness ==
    /\ reroutes.started = 2
    /\ reroutes.inFlight = 1
    /\ reroutes.lastOutcome = "threw"
    /\ isRerouting

\* C28: lastSpokenStepIndex is -1 or the index of a step of currentRouteData
\* announced after that route was installed, so the first step of a route
\* installed during navigation is still announced within 40 m of it.
C28_CursorRefersToCurrentRoute ==
    lastSpokenStepIndex = -1 \/ navTrace.spokenFor = currentRouteData

-----------------------------------------------------------------------------
(* SpecLive: the live sessions a signed-in host creates and ends             *)
(* (app.js: startLiveSessionUI, startLiveTracking, stop-share-btn;           *)
(*  firebase.js: createLiveSession, endLiveSession)                          *)

MaxSessions == 4

\* the sequence without its k-th element
RemoveAt(seq, k) == SubSeq(seq, 1, k - 1) \o SubSeq(seq, k + 1, Len(seq))

\* firebase.js:198-202: no session id, no write
endLiveSession(sessions, id) ==
    IF id = 0 THEN sessions ELSE [sessions EXCEPT ![id].active = FALSE]

\* startLiveSessionUI, lines 2065-2074: the position is found and
\* createLiveSession is called, whatever liveSessionId holds
StartLiveSessionUI ==
    /\ Len(liveSessions) + Len(liveCalls) < MaxSessions
    /\ liveCalls' = Append(liveCalls, "ui")
    /\ UNCHANGED <<liveSessionId, liveSessions>>
    /\ UNCHANGED <<coreVars, forecastVars, sampleVars, navVars>>

\* handleAutoShare of startLiveTracking, lines 2306-2311: createLiveSession is
\* called only if (!liveSessionId)
AutoShare ==
    /\ Len(liveSessions) + Len(liveCalls) < MaxSessions
    /\ liveCalls' = IF liveSessionId = 0 THEN Append(liveCalls, "auto") ELSE liveCalls
    /\ UNCHANGED <<liveSessionId, liveSessions>>
    /\ UNCHANGED <<coreVars, forecastVars, sampleVars, navVars>>

\* firebase.js:142-155 and the assignments of app.js:2074 and 2311: addDoc
\* stores the session with active = true and its id goes to liveSessionId; or
\* addDoc rejects and the caller's catch logs it
CreateLiveSessionSettle(k, stored) ==
    /\ k \in 1..Len(liveCalls)
    /\ liveCalls' = RemoveAt(liveCalls, k)
    /\ IF stored
       THEN /\ liveSessions' = Append(liveSessions, [active |-> TRUE, by |-> liveCalls[k]])
            /\ liveSessionId' = Len(liveSessions) + 1
       ELSE UNCHANGED <<liveSessionId, liveSessions>>
    /\ UNCHANGED <<coreVars, forecastVars, sampleVars, navVars>>

\* the click handler of lines 2830-2836, confirmed: endLiveSession, then
\* liveSessionId = null; if updateDoc rejects the handler ends at the await
StopSharing(updated) ==
    /\ IF updated
       THEN /\ liveSessions' = endLiveSession(liveSessions, liveSessionId)
            /\ liveSessionId' = 0
       ELSE UNCHANGED <<liveSessionId, liveSessions>>
    /\ UNCHANGED liveCalls
    /\ UNCHANGED <<coreVars, forecastVars, sampleVars, navVars>>

InitLive ==
    /\ LiveParked
    /\ EarlierParked
    /\ CoreParked
    /\ ForecastParked
    /\ SampleParked
    /\ NavParked

NextLive ==
    \/ StartLiveSessionUI
    \/ AutoShare
    \/ \E k \in 1..MaxSessions, stored \in BOOLEAN : CreateLiveSessionSettle(k, stored)
    \/ \E updated \in BOOLEAN : StopSharing(updated)

SpecLive == InitLive /\ [][NextLive]_vars

\* C29: a host never has more than one live session left active: every
\* session this client created is ended (active = false) or is the one
\* liveSessionId refers to, so that 'Stop Sharing' ends all sharing.
C29_ActiveSessionIsTheReferencedOne ==
    \A s \in 1..Len(liveSessions) : liveSessions[s].active => s = liveSessionId

====
